---- MODULE Spec2Model ----
(***************************************************************************)
(* A state-machine model of the ECS layer of the arcade repository:        *)
(* Component, Entity (src/lib/ECS/Entity.ts), System (lib/ECS/System.ts)   *)
(* and World (src/lib/ECS/World.ts).                                       *)
(*                                                                         *)
(* Objects live in two heaps (entityHeap, componentHeap); an object's      *)
(* identity is its index in the heap, 0 is null/undefined.  A JavaScript   *)
(* Map is a sequence of [key, value] records in insertion order.           *)
(***************************************************************************)
EXTENDS Integers, Sequences, FiniteSets, TLC

VARIABLES
    entityHeap,      \* every Entity ever constructed: [name, _components]
    componentHeap,   \* every Component ever constructed: [kind, fields]
    entities,        \* World.entities : Map<String, Entity>
    componentCache,  \* World.componentCache : Map<string, {component, system}>
    sceneCode,       \* World.sceneCode : <<bundle>>, or <<>> when undefined
    originalSceneData, \* World.originalSceneData : <<data>>, or <<>>
    worldEntity,     \* World.worldEntity : an entity, or Null
    isPaused,        \* World.isPaused
    modules,         \* what the dynamic import yields for each kind identifier
    files,           \* the file system the generator scripts work on
    page,            \* main.ts: where its DOMContentLoaded handler stands
    log,             \* main.ts: every call made since the handler began
    mock,            \* the mock world of the tests, driven beside the World
    last,            \* the most recent call: operation, arguments, outcome
    trace            \* hook invocations made by the most recent call

vars == <<entityHeap, componentHeap, entities, componentCache, sceneCode,
          originalSceneData, worldEntity, isPaused, modules, files, page,
          log, mock, last, trace>>

(* What lies outside the World and its objects.                            *)
hostVars == <<files, page, log, mock>>

----------------------------------------------------------------------------
(* Bounds of the model.                                                    *)

MaxEntities == 2      \* Entity objects a World constructs in one behaviour
MaxComponents == 3    \* Component objects a World constructs in one behaviour
NumEntities == 2      \* Entity objects client code constructed beforehand

(* Entity names, kind identifiers of scene descriptions and the classes a  *)
(* kind identifier resolves to by the naming convention of                 *)
(* importComponentAndSystem.                                               *)
Names == {"Player", "Enemy"}
KindIds == {"Test", "AnotherTest"}
ComponentClassName(kindId) ==
    IF kindId = "Test" THEN "TestComponent" ELSE "AnotherTestComponent"
SystemClassName(kindId) ==
    IF kindId = "Test" THEN "TestSystem" ELSE "AnotherTestSystem"
ComponentClasses == {ComponentClassName(k) : k \in KindIds}
DeltaTimes == {16, 33}

Null == 0
EntityIds == 1..Len(entityHeap)
ComponentIds == 1..Len(componentHeap)

----------------------------------------------------------------------------
(* JavaScript Map: insertion-ordered, set() on a present key keeps its     *)
(* position and replaces the value.                                        *)

MapKeys(m) == {m[i].key : i \in 1..Len(m)}
MapHas(m, k) == k \in MapKeys(m)
MapIndex(m, k) == CHOOSE i \in 1..Len(m) : m[i].key = k
MapGet(m, k) == IF MapHas(m, k) THEN m[MapIndex(m, k)].value ELSE Null
MapSet(m, k, v) ==
    IF MapHas(m, k)
    THEN [m EXCEPT ![MapIndex(m, k)] = [key |-> k, value |-> v]]
    ELSE Append(m, [key |-> k, value |-> v])
MapDelete(m, k) ==
    IF MapHas(m, k)
    THEN LET i == MapIndex(m, k)
         IN  SubSeq(m, 1, i - 1) \o SubSeq(m, i + 1, Len(m))
    ELSE m
MapValues(m) == [i \in 1..Len(m) |-> m[i].value]

----------------------------------------------------------------------------
(* Component (src/lib/ECS/Component.ts) and the component classes the      *)
(* tests define on top of it.                                              *)

(* Input records handed to component constructors.                         *)
DataRecords ==
    { [testValue |-> "x"],
      [testValue |-> "y", enabled |-> FALSE] }

(* Object.assign(target, source)                                           *)
ObjectAssign(target, source) ==
    [k \in DOMAIN target \cup DOMAIN source |->
        IF k \in DOMAIN source THEN source[k] ELSE target[k]]

(* Component.constructor: the field initialisers, Object.assign(this,      *)
(* data), then enabled from the record (true when it has none).            *)
ComponentConstructor(data) ==
    LET defaults == [loading |-> FALSE, loaded |-> FALSE, enabled |-> TRUE,
                     entity |-> Null]
        assigned == ObjectAssign(defaults, data)
    IN  [assigned EXCEPT !.enabled =
            IF "enabled" \notin DOMAIN data THEN TRUE ELSE data.enabled]

(* class TestComponent / class AnotherTestComponent: super(data), then     *)
(* the subclass's own field, data.field || default.                        *)
SubclassConstructor(class, data) ==
    LET base == ComponentConstructor(data)
    IN  IF class = "TestComponent"
        THEN ObjectAssign(base,
               [testValue |-> IF "testValue" \in DOMAIN data
                              THEN data.testValue ELSE "default"])
        ELSE ObjectAssign(base,
               [name |-> IF "name" \in DOMAIN data
                         THEN data.name ELSE "test"])

(* A construction that drops the input record.                             *)
NewComponentObjectNoData(class, data) ==
    [kind |-> class, fields |-> SubclassConstructor(class, [enabled |-> TRUE])]

(* new <class>(data): a fresh object on the component heap.                *)
NewComponentObject(class, data) ==
    [kind |-> class, fields |-> SubclassConstructor(class, data)]

----------------------------------------------------------------------------
(* Entity (src/lib/ECS/Entity.ts).                                         *)

(* new Entity(name)                                                        *)
NewEntityObject(name) == [name |-> name, _components |-> <<>>]

(* Entity.hasComponent(componentClass): _components.has(class.name)        *)
hasComponent(e, class) == MapHas(entityHeap[e]._components, class)

(* getComponent that returns undefined instead of throwing.                *)
getComponentNoThrow(e, class) ==
    [threw |-> FALSE, ret |-> MapGet(entityHeap[e]._components, class)]

(* Entity.getComponent(componentClass): the stored component, or the       *)
(* thrown string `${class.name} Not Found for ${this.name}`.               *)
getComponent(e, class) ==
    LET t == MapGet(entityHeap[e]._components, class)
    IN  IF t = Null
        THEN [threw |-> TRUE,
              ret |-> <<class, " Not Found for ", entityHeap[e].name>>]
        ELSE [threw |-> FALSE, ret |-> t]

(* addComponent that forgets the back-reference.                           *)
addComponentNoOwner(eh, ch, e, c) ==
    [componentHeap |-> ch,
     entityHeap |-> [eh EXCEPT ![e]._components = MapSet(@, ch[c].kind, c)]]

(* addComponent that pushes onto a list instead of setting a map key.      *)
addComponentAppend(eh, ch, e, c) ==
    [componentHeap |-> [ch EXCEPT ![c].fields.entity = e],
     entityHeap |-> [eh EXCEPT ![e]._components =
                        Append(@, [key |-> ch[c].kind, value |-> c])]]

(* Entity.addComponent(component) on entity e of heap eh and component c  *)
(* of heap ch: the two heaps afterwards.                                   *)
addComponent(eh, ch, e, c) ==
    [componentHeap |-> [ch EXCEPT ![c].fields.entity = e],
     entityHeap |-> [eh EXCEPT ![e]._components = MapSet(@, ch[c].kind, c)]]

(* removeComponent that clears the whole map.                              *)
removeComponentClear(eh, ch, e, c) ==
    [eh EXCEPT ![e]._components = <<>>]

(* Entity.removeComponent(component): the entity heap afterwards.          *)
removeComponent(eh, ch, e, c) ==
    [eh EXCEPT ![e]._components = MapDelete(@, ch[c].kind)]

(* componentClass.constructor.name when the argument is a class: a class   *)
(* is a function, and the constructor of a function is Function.           *)
ConstructorNameOfClass(class) == "Function"

(* Entity.removeComponent(ComponentClass), the argument being a class      *)
(* instead of an instance: the entity heap afterwards.                     *)
removeComponentByClass(eh, e, class) ==
    [eh EXCEPT ![e]._components = MapDelete(@, ConstructorNameOfClass(class))]

Call(op, self, arg, threw, ret) ==
    [op |-> op, self |-> self, arg |-> arg, threw |-> threw, ret |-> ret]

(* Entity.addComponent(component)                                          *)
AddComponent(e, c) ==
    /\ LET after == addComponent(entityHeap, componentHeap, e, c)
       IN  /\ componentHeap' = after.componentHeap
           /\ entityHeap' = after.entityHeap
    /\ last' = Call("addComponent", e, c, FALSE, e)
    /\ trace' = <<>>
    /\ UNCHANGED <<entities, componentCache, sceneCode, originalSceneData,
                   worldEntity, isPaused, modules, hostVars>>

(* Entity.removeComponent(component)                                       *)
RemoveComponent(e, c) ==
    /\ entityHeap' = removeComponent(entityHeap, componentHeap, e, c)
    /\ last' = Call("removeComponent", e, c, FALSE, e)
    /\ trace' = <<>>
    /\ UNCHANGED <<componentHeap, entities, componentCache, sceneCode,
                   originalSceneData, worldEntity, isPaused, modules, hostVars>>

(* entity.removeComponent(ComponentClass), as the README writes it         *)
RemoveComponentClass(e, class) ==
    /\ entityHeap' = removeComponentByClass(entityHeap, e, class)
    /\ last' = Call("removeComponent(class)", e, class, FALSE, e)
    /\ trace' = <<>>
    /\ UNCHANGED <<componentHeap, entities, componentCache, sceneCode,
                   originalSceneData, worldEntity, isPaused, modules, hostVars>>

(* Entity.getComponent(componentClass)                                     *)
GetComponent(e, class) ==
    /\ last' = LET r == getComponent(e, class)
               IN  Call("getComponent", e, class, r.threw, r.ret)
    /\ trace' = <<>>
    /\ UNCHANGED <<entityHeap, componentHeap, entities, componentCache,
                   sceneCode, originalSceneData, worldEntity, isPaused,
                   modules, hostVars>>

----------------------------------------------------------------------------
(* Construction and serialization of components and entities.              *)

(* Input records of component constructors: the records of scenes, and     *)
(* records that carry keys named like the fields of Component.             *)
ConstructorRecords ==
    DataRecords \cup
    { [enabled |-> TRUE],
      [name |-> "n"],
      [loading |-> TRUE],
      [loaded |-> TRUE, enabled |-> FALSE],
      [entity |-> 1, testValue |-> "x"] }

(* new TestComponent(data) / new AnotherTestComponent(data), by client     *)
(* code that constructs one component.                                     *)
NewComponent(class, data) ==
    /\ componentHeap = <<>>
    /\ componentHeap' = <<NewComponentObject(class, data)>>
    /\ last' = Call("new Component", Null, <<class, data>>, FALSE, 1)
    /\ trace' = <<>>
    /\ UNCHANGED <<entityHeap, entities, componentCache, sceneCode,
                   originalSceneData, worldEntity, isPaused, modules, hostVars>>

(* JSON.stringify(value) of plain data and JSON.parse of its text.         *)
JSONStringify(value) == [text |-> value]
JSONParse(json) == json.text

(* const componentData = { ...component }; delete componentData.entity     *)
WithoutEntity(fields) == [k \in DOMAIN fields \ {"entity"} |-> fields[k]]

(* Entity.toJSON(): the name and, per stored key, the component's own      *)
(* fields without the entity key, stringified.                             *)
toJSON(e) ==
    LET m == entityHeap[e]._components
    IN  JSONStringify(
          [name |-> entityHeap[e].name,
           components |->
             [i \in 1..Len(m) |->
                [key |-> m[i].key,
                 value |-> WithoutEntity(componentHeap[m[i].value].fields)]]])

(* Component.serialize(): a new object with every own property of the      *)
(* component, the entity property among them.                              *)
serialize(c) == componentHeap[c].fields

(* A toJSON that leaves the entity key out of the snapshot.                *)
Component_toJSONWithoutEntity(c) ==
    JSONStringify(
      <<[key |-> componentHeap[c].kind,
         value |-> WithoutEntity(componentHeap[c].fields)]>>)

(* Component.toJSON() of the Component variant that defines it: every own  *)
(* key under the class name, stringified; JSON.stringify replaces an       *)
(* Entity by what its toJSON() returns.                                    *)
Component_toJSON(c) ==
    LET fields == componentHeap[c].fields
    IN  JSONStringify(
          <<[key |-> componentHeap[c].kind,
             value |-> [k \in DOMAIN fields |->
                          IF k = "entity" /\ fields[k] # Null
                          THEN toJSON(fields[k])
                          ELSE fields[k]]]>>)

(* component.serialize()                                                   *)
Serialize(c) ==
    /\ last' = Call("serialize", c, Null, FALSE, serialize(c))
    /\ trace' = <<>>
    /\ UNCHANGED <<entityHeap, componentHeap, entities, componentCache,
                   sceneCode, originalSceneData, worldEntity, isPaused,
                   modules, hostVars>>

(* component.toJSON()                                                      *)
ComponentToJSON(c) ==
    /\ last' = Call("Component.toJSON", c, Null, FALSE, Component_toJSON(c))
    /\ trace' = <<>>
    /\ UNCHANGED <<entityHeap, componentHeap, entities, componentCache,
                   sceneCode, originalSceneData, worldEntity, isPaused,
                   modules, hostVars>>

(* A toJSON that deletes the entity key of the components themselves.      *)
ToJSONDeletingEntity(e) ==
    /\ last' = Call("toJSON", e, Null, FALSE, toJSON(e))
    /\ trace' = <<>>
    /\ componentHeap' =
         [c \in 1..Len(componentHeap) |->
            IF \E i \in 1..Len(entityHeap[e]._components) :
                  entityHeap[e]._components[i].value = c
            THEN [componentHeap[c] EXCEPT !.fields.entity = Null]
            ELSE componentHeap[c]]
    /\ UNCHANGED <<entityHeap, entities, componentCache, sceneCode,
                   originalSceneData, worldEntity, isPaused, modules, hostVars>>

(* entity.toJSON()                                                         *)
ToJSON(e) ==
    /\ last' = Call("toJSON", e, Null, FALSE, toJSON(e))
    /\ trace' = <<>>
    /\ UNCHANGED <<entityHeap, componentHeap, entities, componentCache,
                   sceneCode, originalSceneData, worldEntity, isPaused,
                   modules, hostVars>>

----------------------------------------------------------------------------
(* World (src/lib/ECS/World.ts): the entity registry and its queries.      *)

(* Array.from(this.entities.values())                                      *)
RegisteredEntities == MapValues(entities)

(* some() where the code calls every(): logical OR.                        *)
someComponent(e, classes) ==
    \E i \in 1..Len(classes) : hasComponent(e, classes[i])

(* componentClasses.every((comp) => entity.hasComponent(comp))             *)
everyComponent(e, classes) ==
    \A i \in 1..Len(classes) : hasComponent(e, classes[i])

(* A query over every entity ever constructed, removed ones included.      *)
entitiesWithRemoved(isArray, componentClasses) ==
    SelectSeq([i \in 1..Len(entityHeap) |-> i],
              LAMBDA e : IF isArray
                         THEN everyComponent(e, componentClasses)
                         ELSE hasComponent(e, componentClasses))

(* World.entitiesWith(componentClasses): an array of classes, or a single  *)
(* class, selects the registered entities in registry order.               *)
entitiesWith(isArray, componentClasses) ==
    SelectSeq(RegisteredEntities,
              LAMBDA e : IF isArray
                         THEN everyComponent(e, componentClasses)
                         ELSE hasComponent(e, componentClasses))

(* search that answers a single name with the first registered entity.     *)
searchFirstRegistered(isArray, name) ==
    IF isArray
    THEN SelectSeq([i \in 1..Len(name) |-> MapGet(entities, name[i])],
                   LAMBDA e : e # Null)
    ELSE IF entities = <<>> THEN Null ELSE entities[1].value

(* World.search(name): for an array of names, entities.get of each name    *)
(* with the undefined results filtered out; for one name, entities.get.    *)
search(isArray, name) ==
    IF isArray
    THEN SelectSeq([i \in 1..Len(name) |-> MapGet(entities, name[i])],
                   LAMBDA e : e # Null)
    ELSE MapGet(entities, name)

(* createEntity that returns the registered entity of that name, if any.   *)
createEntityKeepExisting(eh, reg, name) ==
    IF MapHas(reg, name)
    THEN [entityHeap |-> eh, entities |-> reg, entity |-> MapGet(reg, name)]
    ELSE [entityHeap |-> Append(eh, NewEntityObject(name)),
          entities |-> MapSet(reg, name, Len(eh) + 1),
          entity |-> Len(eh) + 1]

(* World.createEntity(name) on entity heap eh and registry reg: the heap,  *)
(* the registry and the returned entity.                                   *)
createEntity(eh, reg, name) ==
    LET entity == Len(eh) + 1
    IN  [entityHeap |-> Append(eh, NewEntityObject(name)),
         entities |-> MapSet(reg, name, entity),
         entity |-> entity]

(* removeEntity that deletes nothing.                                      *)
removeEntityNothing(reg, name) == reg

(* World.removeEntity(entity): the registry afterwards.                    *)
removeEntity(reg, name) == MapDelete(reg, name)

(* world.createEntity(name), called by client code                         *)
CreateEntity(name) ==
    /\ Len(entityHeap) < MaxEntities
    /\ LET after == createEntity(entityHeap, entities, name)
       IN  /\ entityHeap' = after.entityHeap
           /\ entities' = after.entities
           /\ last' = Call("createEntity", Null, name, FALSE, after.entity)
    /\ trace' = <<>>
    /\ UNCHANGED <<componentHeap, componentCache, sceneCode,
                   originalSceneData, worldEntity, isPaused, modules, hostVars>>

(* world.removeEntity(entity), called by client code                       *)
RemoveEntity(e) ==
    /\ entities' = removeEntity(entities, entityHeap[e].name)
    /\ last' = Call("removeEntity", Null, e, FALSE, Null)
    /\ trace' = <<>>
    /\ UNCHANGED <<entityHeap, componentHeap, componentCache, sceneCode,
                   originalSceneData, worldEntity, isPaused, modules, hostVars>>

(* world.search(name), called by client code                               *)
Search(isArray, name) ==
    /\ last' = Call("search", Null, <<isArray, name>>, FALSE,
                    search(isArray, name))
    /\ trace' = <<>>
    /\ UNCHANGED <<entityHeap, componentHeap, entities, componentCache,
                   sceneCode, originalSceneData, worldEntity, isPaused,
                   modules, hostVars>>

(* World.entitiesWith(componentClasses), called by client code             *)
EntitiesWith(isArray, componentClasses) ==
    /\ last' = Call("entitiesWith", Null, <<isArray, componentClasses>>,
                    FALSE, entitiesWith(isArray, componentClasses))
    /\ trace' = <<>>
    /\ UNCHANGED <<entityHeap, componentHeap, entities, componentCache,
                   sceneCode, originalSceneData, worldEntity, isPaused,
                   modules, hostVars>>

(* world.isPaused = b                                                      *)
SetPaused(b) ==
    /\ isPaused' = b
    /\ last' = Call("setPaused", Null, b, FALSE, Null)
    /\ trace' = <<>>
    /\ UNCHANGED <<entityHeap, componentHeap, entities, componentCache,
                   sceneCode, originalSceneData, worldEntity, modules,
                   hostVars>>

----------------------------------------------------------------------------
(* System (lib/ECS/System.ts).  A system is a value: its required classes, *)
(* its isPauseable flag and which optional hooks its subclass defines.     *)
(* The protected entities field is never read or written.                  *)

ClassArrays ==
    {<<>>} \cup {<<a>> : a \in ComponentClasses}
           \cup {<<a, b>> : a, b \in ComponentClasses}

SystemObject(componentClasses, isPauseable, hasLoadEntity, hasProcessEntity) ==
    [componentClasses |-> componentClasses, isPauseable |-> isPauseable,
     hasLoadEntity |-> hasLoadEntity, hasProcessEntity |-> hasProcessEntity]

(* The systems client code constructs: TestSystem, PauseableTestSystem and *)
(* MultiComponentSystem of the System tests, and a system that defines     *)
(* neither optional hook (loadEntity deleted as in NoLoadEntitySystem,     *)
(* no processEntity as in InspectorSystem).                                *)
Systems ==
    { SystemObject(<<"TestComponent">>, FALSE, TRUE, TRUE),
      SystemObject(<<"TestComponent">>, TRUE, TRUE, TRUE),
      SystemObject(<<"TestComponent", "AnotherTestComponent">>, FALSE, TRUE,
                   TRUE),
      SystemObject(<<"AnotherTestComponent">>, FALSE, FALSE, FALSE) }

(* A pause check that ignores isPauseable.                                 *)
updateSkippedWhenPaused(system) == isPaused

(* if (this.isPauseable && this.world.isPaused) return;                    *)
updateSkipped(system) == system.isPauseable /\ isPaused

(* A pass that walks the queried entities from the last to the first.      *)
HookCallsReversed(hook, system, es, arg) ==
    [i \in 1..Len(es) |->
        [hook |-> hook, system |-> system, entity |-> es[Len(es) + 1 - i],
         arg |-> arg]]

(* The hook calls of one pass over the queried entities.                   *)
HookCalls(hook, system, es, arg) ==
    [i \in 1..Len(es) |->
        [hook |-> hook, system |-> system, entity |-> es[i], arg |-> arg]]

(* System.update(deltaTime): the processEntity calls it makes              *)
update(system, deltaTime) ==
    IF updateSkipped(system)
    THEN <<>>
    ELSE IF system.hasProcessEntity
         THEN HookCalls("processEntity", system,
                        entitiesWith(TRUE, system.componentClasses), deltaTime)
         ELSE <<>>

(* System.loadEntities(): the loadEntity calls it makes                    *)
loadEntities(system) ==
    IF ~system.hasLoadEntity
    THEN <<>>
    ELSE HookCalls("loadEntity", system,
                   entitiesWith(TRUE, system.componentClasses), Null)

(* system.update(deltaTime), called on any system of this World            *)
Update(system, deltaTime) ==
    /\ trace' = update(system, deltaTime)
    /\ last' = Call("update", system, deltaTime, FALSE, Null)
    /\ UNCHANGED <<entityHeap, componentHeap, entities, componentCache,
                   sceneCode, originalSceneData, worldEntity, isPaused,
                   modules, hostVars>>

(* system.loadEntities(), called on any system of this World               *)
LoadEntities(system) ==
    /\ trace' = loadEntities(system)
    /\ last' = Call("loadEntities", system, Null, FALSE, Null)
    /\ UNCHANGED <<entityHeap, componentHeap, entities, componentCache,
                   sceneCode, originalSceneData, worldEntity, isPaused,
                   modules, hostVars>>

----------------------------------------------------------------------------
(* Scene loading (World.loadSceneData, loadSceneCode,                      *)
(* importComponentAndSystem).                                              *)

NoClass == "null"

(* What `await import(...)` yields for a kind identifier over the life of  *)
(* the page: the module with both exports, a rejected import, or a module  *)
(* that lacks one of the two exports.                                      *)
ImportOutcomes == {"ok", "throws", "noComponent", "noSystem"}

(* World.importComponentAndSystem(componentType): a rejected import is     *)
(* caught and yields {component: null, system: null}.                      *)
importComponentAndSystem(kindId) ==
    CASE modules[kindId] = "ok" ->
           [component |-> ComponentClassName(kindId),
            system |-> SystemClassName(kindId)]
      [] modules[kindId] = "throws" ->
           [component |-> NoClass, system |-> NoClass]
      [] modules[kindId] = "noComponent" ->
           [component |-> NoClass, system |-> SystemClassName(kindId)]
      [] modules[kindId] = "noSystem" ->
           [component |-> ComponentClassName(kindId), system |-> NoClass]

(* Scene descriptions: { entities: { name: { components: { kind: data }}}, *)
(* worldEntity }, JSON objects in key order.                               *)
ComponentDecls ==
    {<<>>}
    \cup {<<[kind |-> k, data |-> d]>> : k \in KindIds, d \in DataRecords}
    \cup {<<[kind |-> k1, data |-> d1], [kind |-> k2, data |-> d2]>> :
            <<k1, k2, d1, d2>> \in
              {t \in KindIds \X KindIds \X DataRecords \X DataRecords :
                 t[1] # t[2]}}

EntityDecls ==
    {<<>>}
    \cup {<<[name |-> n, components |-> cs]>> :
            n \in Names, cs \in ComponentDecls}
    \cup {<<[name |-> n1, components |-> c1],
            [name |-> n2, components |-> c2]>> :
            <<n1, n2, c1, c2>> \in
              {t \in Names \X Names \X ComponentDecls \X ComponentDecls :
                 t[1] # t[2]}}

SceneDescriptions == [entities : EntityDecls, worldEntity : {"Player"}]

(* Object.keys(data.entities).flatMap(name => Object.keys(components))     *)
RECURSIVE FlatKinds(_)
FlatKinds(entityDecls) ==
    IF entityDecls = <<>>
    THEN <<>>
    ELSE [i \in 1..Len(Head(entityDecls).components) |->
             Head(entityDecls).components[i].kind]
         \o FlatKinds(Tail(entityDecls))

(* new Set(array): the distinct elements in order of first occurrence      *)
RECURSIVE NewSet(_)
NewSet(array) ==
    IF array = <<>>
    THEN <<>>
    ELSE LET front == NewSet(SubSeq(array, 1, Len(array) - 1))
             x == array[Len(array)]
         IN  IF \E i \in 1..Len(front) : front[i] = x
             THEN front
             ELSE Append(front, x)

(* A resolution loop that caches a kind as soon as a component came back.  *)
RECURSIVE ResolveKindsComponentOnly(_, _)
ResolveKindsComponentOnly(cache, kinds) ==
    IF kinds = <<>>
    THEN cache
    ELSE LET r == importComponentAndSystem(Head(kinds))
         IN  ResolveKindsComponentOnly(
               IF r.component # NoClass
               THEN MapSet(cache, Head(kinds), r)
               ELSE cache,
               Tail(kinds))

(* The resolution loop of loadSceneCode: each kind is imported, and cached *)
(* when both a component and a system came back.                           *)
RECURSIVE ResolveKinds(_, _)
ResolveKinds(cache, kinds) ==
    IF kinds = <<>>
    THEN cache
    ELSE LET r == importComponentAndSystem(Head(kinds))
         IN  ResolveKinds(
               IF r.component # NoClass /\ r.system # NoClass
               THEN MapSet(cache, Head(kinds), r)
               ELSE cache,
               Tail(kinds))

(* The import calls of the resolution loop, in order.                      *)
ImportCalls(kinds) ==
    [i \in 1..Len(kinds) |->
        [hook |-> "import", system |-> Null, entity |-> Null,
         arg |-> kinds[i]]]

(* The inner loop of loadSceneCode over one entity's declared components:  *)
(* a cached kind is constructed from the declared data and added.          *)
RECURSIVE AttachComponents(_, _, _, _)
AttachComponents(st, cache, e, decls) ==
    IF decls = <<>>
    THEN st
    ELSE LET decl == Head(decls)
             cached == MapHas(cache, decl.kind)
             class == IF cached THEN MapGet(cache, decl.kind).component
                      ELSE NoClass
         IN  IF cached /\ class # NoClass
             THEN LET c == Len(st.componentHeap) + 1
                      built == Append(st.componentHeap,
                                      NewComponentObject(class, decl.data))
                      after == addComponent(st.entityHeap, built, e, c)
                  IN  AttachComponents(
                        [st EXCEPT
                           !.entityHeap = after.entityHeap,
                           !.componentHeap = after.componentHeap,
                           !.components = MapSet(@, decl.kind, class),
                           !.componentTypes = NewSet(Append(@, decl.kind))],
                        cache, e, Tail(decls))
             ELSE AttachComponents(st, cache, e, Tail(decls))

(* The outer loop of loadSceneCode over the declared entities.             *)
RECURSIVE ProcessEntities(_, _, _, _)
ProcessEntities(st, cache, decls, worldEntityName) ==
    IF decls = <<>>
    THEN st
    ELSE LET decl == Head(decls)
             made == createEntity(st.entityHeap, st.entities, decl.name)
             st1 == [st EXCEPT
                       !.entityHeap = made.entityHeap,
                       !.entities = made.entities,
                       !.bundleEntities = MapSet(@, decl.name, made.entity),
                       !.worldEntity = IF decl.name = worldEntityName
                                       THEN made.entity ELSE @]
         IN  ProcessEntities(
               AttachComponents(st1, cache, made.entity, decl.components),
               cache, Tail(decls), worldEntityName)

(* new <system class>(world, componentClasses): the system classes of the  *)
(* tests; AnotherTestSystem stands for a subclass that sets isPauseable.   *)
NewSystem(systemClass, componentClasses) ==
    [componentClasses |-> componentClasses,
     isPauseable |-> (systemClass = "AnotherTestSystem"),
     hasLoadEntity |-> TRUE,
     hasProcessEntity |-> TRUE]

(* A system loop that instantiates every system a second time.             *)
InstantiateSystemsTwice(cache) ==
    LET withSystem == SelectSeq(cache, LAMBDA en : en.value.system # NoClass)
        once == [i \in 1..Len(withSystem) |->
                    [componentClasses |-> <<withSystem[i].value.component>>,
                     isPauseable |->
                        (withSystem[i].value.system = "AnotherTestSystem"),
                     hasLoadEntity |-> TRUE,
                     hasProcessEntity |-> TRUE]]
    IN  once \o once

(* The system loop of loadSceneCode: one system per cache entry.           *)
InstantiateSystems(cache) ==
    LET withSystem == SelectSeq(cache, LAMBDA en : en.value.system # NoClass)
    IN  [i \in 1..Len(withSystem) |->
            NewSystem(withSystem[i].value.system,
                      <<withSystem[i].value.component>>)]

(* An entity loop that begins by clearing the registry.                    *)
loadSceneCodeClearingRegistry(data, cache) ==
    LET st == ProcessEntities(
                [entityHeap |-> entityHeap, componentHeap |-> componentHeap,
                 entities |-> <<>>, worldEntity |-> worldEntity,
                 bundleEntities |-> <<>>, componentTypes |-> <<>>,
                 components |-> <<>>],
                cache, data.entities, data.worldEntity)
    IN  [entityHeap |-> st.entityHeap,
         componentHeap |-> st.componentHeap,
         entities |-> st.entities,
         worldEntity |-> st.worldEntity,
         bundle |-> [entities |-> st.bundleEntities,
                     componentTypes |-> st.componentTypes,
                     systems |-> InstantiateSystems(cache),
                     components |-> st.components]]

(* World.loadSceneCode after its resolution loop, the cache being cache:   *)
(* the entity loop, the system loop and the bundle returned.               *)
loadSceneCodeAfterResolution(data, cache) ==
    LET st == ProcessEntities(
                [entityHeap |-> entityHeap, componentHeap |-> componentHeap,
                 entities |-> entities, worldEntity |-> worldEntity,
                 bundleEntities |-> <<>>, componentTypes |-> <<>>,
                 components |-> <<>>],
                cache, data.entities, data.worldEntity)
    IN  [entityHeap |-> st.entityHeap,
         componentHeap |-> st.componentHeap,
         entities |-> st.entities,
         worldEntity |-> st.worldEntity,
         bundle |-> [entities |-> st.bundleEntities,
                     componentTypes |-> st.componentTypes,
                     systems |-> InstantiateSystems(cache),
                     components |-> st.components]]

(* World.loadSceneCode(data): everything the call changes, and the bundle  *)
(* it returns.                                                             *)
loadSceneCode(data) ==
    LET uniqueComponents == NewSet(FlatKinds(data.entities))
        cache == ResolveKinds(componentCache, uniqueComponents)
        after == loadSceneCodeAfterResolution(data, cache)
    IN  [entityHeap |-> after.entityHeap,
         componentHeap |-> after.componentHeap,
         entities |-> after.entities,
         worldEntity |-> after.worldEntity,
         componentCache |-> cache,
         imports |-> ImportCalls(uniqueComponents),
         bundle |-> after.bundle]

(* world.loadSceneCode(data), called directly                              *)
LoadSceneCode(data) ==
    /\ Len(entityHeap) + Len(data.entities) <= MaxEntities
    /\ LET after == loadSceneCode(data)
       IN
        /\ Len(after.componentHeap) <= MaxComponents
        /\ entityHeap' = after.entityHeap
        /\ componentHeap' = after.componentHeap
        /\ entities' = after.entities
        /\ worldEntity' = after.worldEntity
        /\ componentCache' = after.componentCache
        /\ trace' = after.imports
        /\ last' = Call("loadSceneCode", Null, data, FALSE, after.bundle)
        /\ UNCHANGED <<sceneCode, originalSceneData, isPaused, modules,
                       hostVars>>

(* What `await response.json()` yields: null, false, or an object.         *)
JsonNull == [json |-> "null"]
JsonFalse == [json |-> "false"]
JsonObject(value) == [json |-> "object", value |-> value]

(* The scene files of a game: an empty scene, the mockSceneData of the     *)
(* World tests, and one entity that declares both kinds.                   *)
SceneFiles ==
    { [entities |-> <<>>, worldEntity |-> "Player"],
      [entities |->
         << [name |-> "Player", components |->
               <<[kind |-> "Test", data |-> [testValue |-> "x"]]>>],
            [name |-> "Enemy", components |->
               <<[kind |-> "AnotherTest",
                  data |-> [testValue |-> "y", enabled |-> FALSE]]>>] >>,
       worldEntity |-> "Player"],
      [entities |->
         << [name |-> "Player", components |->
               <<[kind |-> "Test", data |-> [testValue |-> "x"]],
                 [kind |-> "AnotherTest", data |-> [testValue |-> "x"]]>>] >>,
       worldEntity |-> "Player"] }

(* The bodies a fetch can come back with: null, false, an object without   *)
(* an entities key, a scene description.                                   *)
ResponseBodies ==
    {JsonNull, JsonFalse, JsonObject([someOtherProperty |-> "value"])}
    \cup {JsonObject(data) : data \in SceneFiles}

(* !sceneData                                                              *)
Falsy(body) == body.json \in {"null", "false"}

(* !sceneData.entities, for a truthy body                                  *)
NoEntities(body) == "entities" \notin DOMAIN body.value

(* loadSceneData that stores the payload before it validates it.           *)
loadSceneDataStoreFirst(body) ==
    IF Falsy(body)
    THEN [threw |-> TRUE, ret |-> "Data is not in JSON Format",
          originalSceneData |-> <<body>>]
    ELSE IF NoEntities(body)
         THEN [threw |-> TRUE, ret |-> "No entities property in sceneData",
               originalSceneData |-> <<body.value>>]
         ELSE [threw |-> FALSE, ret |-> Null,
               originalSceneData |-> <<body.value>>]

(* World.loadSceneData up to its call of loadSceneCode: the two checks of  *)
(* the fetched body, then this.originalSceneData = sceneData.              *)
loadSceneData(body) ==
    IF Falsy(body)
    THEN [threw |-> TRUE, ret |-> "Data is not in JSON Format",
          originalSceneData |-> originalSceneData]
    ELSE IF NoEntities(body)
         THEN [threw |-> TRUE, ret |-> "No entities property in sceneData",
               originalSceneData |-> originalSceneData]
         ELSE [threw |-> FALSE, ret |-> Null,
               originalSceneData |-> <<body.value>>]

(* await world.loadSceneData(sceneName, gameName), the fetch yielding body *)
LoadSceneData(body) ==
    LET checked == loadSceneData(body)
    IN  /\ originalSceneData' = checked.originalSceneData
        /\ last' = Call("loadSceneData", Null, body, checked.threw,
                        checked.ret)
        /\ IF checked.threw
           THEN /\ trace' = <<>>
                /\ UNCHANGED <<entityHeap, componentHeap, entities,
                               componentCache, sceneCode, worldEntity,
                               isPaused, modules, hostVars>>
           ELSE /\ Len(entityHeap) + Len(body.value.entities) <= MaxEntities
                /\ LET after == loadSceneCode(body.value)
                   IN  /\ Len(after.componentHeap) <= MaxComponents
                       /\ entityHeap' = after.entityHeap
                       /\ componentHeap' = after.componentHeap
                       /\ entities' = after.entities
                       /\ worldEntity' = after.worldEntity
                       /\ componentCache' = after.componentCache
                       /\ sceneCode' = <<after.bundle>>
                       /\ trace' = after.imports
                /\ UNCHANGED <<isPaused, modules, hostVars>>

(* A call the World makes on a system.                                     *)
SystemCall(method, system, arg) ==
    [hook |-> method, system |-> system, entity |-> Null, arg |-> arg]

(* loadSystems that calls loadEntities() before load().                    *)
RECURSIVE loadSystemsEntitiesFirst(_)
loadSystemsEntitiesFirst(systems) ==
    IF systems = <<>>
    THEN <<>>
    ELSE <<SystemCall("loadEntities", Head(systems), Null)>>
         \o loadEntities(Head(systems))
         \o <<SystemCall("load", Head(systems), Null)>>
         \o loadSystemsEntitiesFirst(Tail(systems))

(* The forEach of World.loadSystems: system.load(), then                   *)
(* system.loadEntities() with the loadEntity calls it makes, system by     *)
(* system.                                                                 *)
RECURSIVE loadSystems(_)
loadSystems(systems) ==
    IF systems = <<>>
    THEN <<>>
    ELSE <<SystemCall("load", Head(systems), Null),
           SystemCall("loadEntities", Head(systems), Null)>>
         \o loadEntities(Head(systems))
         \o loadSystems(Tail(systems))

(* await world.loadSystems(): sceneCode.systems of an undefined sceneCode   *)
(* is a TypeError.                                                         *)
LoadSystems ==
    /\ IF sceneCode = <<>>
       THEN /\ trace' = <<>>
            /\ last' = Call("loadSystems", Null, Null, TRUE, "TypeError")
       ELSE /\ trace' = loadSystems(sceneCode[1].systems)
            /\ last' = Call("loadSystems", Null, Null, FALSE, Null)
    /\ UNCHANGED <<entityHeap, componentHeap, entities, componentCache,
                   sceneCode, originalSceneData, worldEntity, isPaused,
                   modules, hostVars>>

(* updateSystems that does not ask whether the scene is ready.             *)
RECURSIVE updateSystemsIgnoringReady(_, _, _)
updateSystemsIgnoringReady(systems, ready, deltaTime) ==
    IF systems = <<>>
    THEN <<>>
    ELSE <<SystemCall("update", Head(systems), deltaTime)>>
         \o update(Head(systems), deltaTime)
         \o updateSystemsIgnoringReady(Tail(systems), ready, deltaTime)

(* The forEach of World.updateSystems, behind its guard on the scene being *)
(* ready: system.update(deltaTime) with the processEntity calls it makes,  *)
(* system by system.                                                       *)
RECURSIVE updateSystems(_, _, _)
updateSystems(systems, ready, deltaTime) ==
    IF ~ready \/ systems = <<>>
    THEN <<>>
    ELSE <<SystemCall("update", Head(systems), deltaTime)>>
         \o update(Head(systems), deltaTime)
         \o updateSystems(Tail(systems), ready, deltaTime)

(* world.updateSystems(deltaTime), currentScene.isReady() yielding ready   *)
UpdateSystems(ready, deltaTime) ==
    /\ trace' = IF sceneCode = <<>>
                THEN <<>>
                ELSE updateSystems(sceneCode[1].systems, ready, deltaTime)
    /\ last' = Call("updateSystems", Null, <<ready, deltaTime>>, FALSE, Null)
    /\ UNCHANGED <<entityHeap, componentHeap, entities, componentCache,
                   sceneCode, originalSceneData, worldEntity, isPaused,
                   modules, hostVars>>

----------------------------------------------------------------------------
(* Subclasses of System whose hooks read components and change the World   *)
(* (TestSystem and MultiComponentSystem of the System tests, and           *)
(* subclasses written by client code).  A pass runs on a state st: the two *)
(* heaps, the registry, the calls made so far and the value thrown, if     *)
(* any.  A thrown value is logged in the calls as a "throw" entry.         *)

(* What a processEntity hook of client code does to the World.             *)
Effects == {"none", "removeEntity", "createEntity", "removeComponent",
            "addComponent"}

HookSystemObject(classes, loadGets, processGets, effect) ==
    [componentClasses |-> classes, isPauseable |-> FALSE,
     hasLoadEntity |-> TRUE, hasProcessEntity |-> TRUE,
     loadEntityGets |-> loadGets, processEntityGets |-> processGets,
     effect |-> effect]

(* new TestSystem(world, componentClasses): both hooks call                *)
(* entity.getComponent(TestComponent), whatever the required classes.      *)
TestSystem(componentClasses) ==
    HookSystemObject(componentClasses, <<"TestComponent">>,
                     <<"TestComponent">>, "none")

(* new MultiComponentSystem(world, componentClasses): loadEntity gets both *)
(* classes, processEntity reads nothing.                                   *)
MultiComponentSystem(componentClasses) ==
    HookSystemObject(componentClasses,
                     <<"TestComponent", "AnotherTestComponent">>, <<>>,
                     "none")

(* A subclass of client code, required class TestComponent, whose          *)
(* processEntity changes the World and whose loadEntity does nothing.      *)
EffectSystem(effect) ==
    HookSystemObject(<<"TestComponent">>, <<>>, <<>>, effect)

(* this.world.entitiesWith(this.componentClasses), on the state st         *)
entitiesWithIn(st, componentClasses) ==
    SelectSeq(MapValues(st.entities),
              LAMBDA e : \A i \in 1..Len(componentClasses) :
                 MapHas(st.entityHeap[e]._components, componentClasses[i]))

(* entity.getComponent(class), on the state st                             *)
getComponentIn(st, e, class) ==
    LET t == MapGet(st.entityHeap[e]._components, class)
    IN  IF t = Null
        THEN [threw |-> TRUE,
              ret |-> <<class, " Not Found for ", st.entityHeap[e].name>>]
        ELSE [threw |-> FALSE, ret |-> t]

(* The getComponent calls a hook body begins with: the first that throws,  *)
(* if any.                                                                 *)
HookGets(st, e, classes) ==
    LET failing == SelectSeq(classes,
                             LAMBDA class : getComponentIn(st, e, class).threw)
    IN  IF failing = <<>>
        THEN [threw |-> FALSE, ret |-> Null]
        ELSE getComponentIn(st, e, Head(failing))

(* The registered entities other than e, in registry order.                *)
Others(st, e) == SelectSeq(MapValues(st.entities), LAMBDA o : o # e)

(* this.world.removeEntity(o) for each o of os                             *)
RECURSIVE RemoveEach(_, _)
RemoveEach(st, os) ==
    IF os = <<>>
    THEN st
    ELSE RemoveEach(
           [st EXCEPT !.entities =
               removeEntity(@, st.entityHeap[Head(os)].name)],
           Tail(os))

(* o.addComponent(c) for each o of os                                      *)
RECURSIVE AddToEach(_, _, _)
AddToEach(st, os, c) ==
    IF os = <<>>
    THEN st
    ELSE LET after == addComponent(st.entityHeap, st.componentHeap,
                                   Head(os), c)
         IN  AddToEach([st EXCEPT !.entityHeap = after.entityHeap,
                                  !.componentHeap = after.componentHeap],
                       Tail(os), c)

(* o.removeComponent(o.getComponent(class)) for each o of os that has one  *)
RECURSIVE RemoveFromEach(_, _, _)
RemoveFromEach(st, os, class) ==
    IF os = <<>>
    THEN st
    ELSE LET c == MapGet(st.entityHeap[Head(os)]._components, class)
         IN  RemoveFromEach(
               IF c = Null
               THEN st
               ELSE [st EXCEPT !.entityHeap =
                        removeComponent(@, st.componentHeap, Head(os), c)],
               Tail(os), class)

(* The body of loadEntity after its getComponent calls:                    *)
(* component.loaded = true on each component it got.                       *)
RECURSIVE loadEntityBody(_, _, _)
loadEntityBody(st, e, classes) ==
    IF classes = <<>>
    THEN st
    ELSE LET c == getComponentIn(st, e, Head(classes)).ret
         IN  loadEntityBody(
               [st EXCEPT !.componentHeap[c].fields.loaded = TRUE],
               e, Tail(classes))

(* The body of processEntity after its getComponent calls: what the        *)
(* subclass does to the World.                                             *)
processEntityBody(st, system, e) ==
    CASE system.effect = "none" -> st
      [] system.effect = "removeEntity" -> RemoveEach(st, Others(st, e))
      [] system.effect = "createEntity" ->
           LET made == createEntity(st.entityHeap, st.entities, "Spawn")
               c == MapGet(st.entityHeap[e]._components, "TestComponent")
               st1 == [st EXCEPT !.entityHeap = made.entityHeap,
                                 !.entities = made.entities]
           IN  IF c = Null THEN st1 ELSE AddToEach(st1, <<made.entity>>, c)
      [] system.effect = "removeComponent" ->
           RemoveFromEach(st, Others(st, e), "TestComponent")
      [] system.effect = "addComponent" ->
           LET c == MapGet(st.entityHeap[e]._components, "TestComponent")
           IN  IF c = Null THEN st ELSE AddToEach(st, Others(st, e), c)

HookCall(hook, system, e, arg) ==
    [hook |-> hook, system |-> system, entity |-> e, arg |-> arg]

(* One hook invocation on the state st.                                    *)
runHook(st, hook, system, e, arg) ==
    LET called == [st EXCEPT !.calls = Append(@, HookCall(hook, system, e,
                                                          arg))]
        classes == IF hook = "loadEntity" THEN system.loadEntityGets
                   ELSE system.processEntityGets
        got == HookGets(st, e, classes)
    IN  IF got.threw
        THEN [called EXCEPT
                !.calls = Append(@, HookCall("throw", system, e, got.ret)),
                !.threw = TRUE, !.ret = got.ret]
        ELSE IF hook = "loadEntity"
             THEN loadEntityBody(called, e, classes)
             ELSE processEntityBody(called, system, e)

(* A loop that catches what a hook throws and goes on.                     *)
RECURSIVE runPassCatching(_, _, _, _, _)
runPassCatching(st, hook, system, es, arg) ==
    IF es = <<>>
    THEN st
    ELSE LET after == runHook(st, hook, system, Head(es), arg)
         IN  runPassCatching([after EXCEPT !.threw = FALSE, !.ret = Null],
                             hook, system, Tail(es), arg)

(* A loop that asks, before each call, whether the entity still matches.   *)
RECURSIVE runPassSkippingStale(_, _, _, _, _)
runPassSkippingStale(st, hook, system, es, arg) ==
    IF es = <<>> \/ st.threw
    THEN st
    ELSE IF \E i \in 1..Len(entitiesWithIn(st, system.componentClasses)) :
               entitiesWithIn(st, system.componentClasses)[i] = Head(es)
         THEN runPassSkippingStale(runHook(st, hook, system, Head(es), arg),
                                   hook, system, Tail(es), arg)
         ELSE runPassSkippingStale(st, hook, system, Tail(es), arg)

(* for (const entity of entities) hook(entity, arg): the loop over the     *)
(* array es that entitiesWith returned; a throw ends it.                   *)
RECURSIVE runPass(_, _, _, _, _)
runPass(st, hook, system, es, arg) ==
    IF es = <<>> \/ st.threw
    THEN st
    ELSE runPass(runHook(st, hook, system, Head(es), arg),
                 hook, system, Tail(es), arg)

(* System.update(deltaTime) on the state st                                *)
updateIn(st, system, deltaTime) ==
    IF updateSkipped(system) \/ ~system.hasProcessEntity
    THEN st
    ELSE runPass(st, "processEntity", system,
                 entitiesWithIn(st, system.componentClasses), deltaTime)

(* System.loadEntities() on the state st                                   *)
loadEntitiesIn(st, system) ==
    IF ~system.hasLoadEntity
    THEN st
    ELSE runPass(st, "loadEntity", system,
                 entitiesWithIn(st, system.componentClasses), Null)

(* The forEach of World.loadSystems on the state st; a throw ends it.      *)
RECURSIVE loadSystemsIn(_, _)
loadSystemsIn(st, systems) ==
    IF systems = <<>> \/ st.threw
    THEN st
    ELSE LET called ==
               [st EXCEPT !.calls =
                   @ \o <<SystemCall("load", Head(systems), Null),
                          SystemCall("loadEntities", Head(systems), Null)>>]
         IN  loadSystemsIn(loadEntitiesIn(called, Head(systems)),
                           Tail(systems))

(* The forEach of World.updateSystems on the state st; a throw ends it.    *)
RECURSIVE updateSystemsIn(_, _, _)
updateSystemsIn(st, systems, deltaTime) ==
    IF systems = <<>> \/ st.threw
    THEN st
    ELSE LET called ==
               [st EXCEPT !.calls =
                   Append(@, SystemCall("update", Head(systems), deltaTime))]
         IN  updateSystemsIn(updateIn(called, Head(systems), deltaTime),
                             Tail(systems), deltaTime)

(* The state a call starts on.                                             *)
Now ==
    [entityHeap |-> entityHeap, componentHeap |-> componentHeap,
     entities |-> entities, calls |-> <<>>, threw |-> FALSE, ret |-> Null]

(* Entity objects on the heap once hooks have created some.                *)
MaxSpawned == MaxEntities + 1

(* The state a call ends on, and what its caller sees.                     *)
Outcome(op, self, arg, after) ==
    /\ Len(after.entityHeap) <= MaxSpawned
    /\ entityHeap' = after.entityHeap
    /\ componentHeap' = after.componentHeap
    /\ entities' = after.entities
    /\ trace' = after.calls
    /\ last' = Call(op, self, arg, after.threw, after.ret)
    /\ UNCHANGED <<componentCache, sceneCode, originalSceneData, worldEntity,
                   isPaused, modules, hostVars>>

(* system.update(deltaTime), the hooks being those of the subclass         *)
HookUpdate(system, deltaTime) ==
    Outcome("update", system, deltaTime, updateIn(Now, system, deltaTime))

(* system.loadEntities(), the hooks being those of the subclass            *)
HookLoadEntities(system) ==
    Outcome("loadEntities", system, Null, loadEntitiesIn(Now, system))

(* await world.loadSystems() on a World that holds a bundle                *)
HookLoadSystems ==
    /\ sceneCode # <<>>
    /\ Outcome("loadSystems", Null, Null,
               loadSystemsIn(Now, sceneCode[1].systems))

(* world.updateSystems(deltaTime) on a World that holds a bundle, the      *)
(* scene being ready                                                       *)
HookUpdateSystems(deltaTime) ==
    /\ sceneCode # <<>>
    /\ Outcome("updateSystems", Null, deltaTime,
               updateSystemsIn(Now, sceneCode[1].systems, deltaTime))

(* The bundles of the Worlds under test: world.sceneCode = { systems }.    *)
HookBundles ==
    {<<EffectSystem(effect), TestSystem(<<"TestComponent">>)>> :
        effect \in Effects \ {"none"}}
    \cup {<<TestSystem(<<>>), MultiComponentSystem(<<"TestComponent">>)>>}

----------------------------------------------------------------------------
(* The mock world of the tests (test/helpers.ts, createTestWorld): an      *)
(* object literal with its own registry, bundle and pause flag, whose      *)
(* entities are real Entity objects.  Its state is the record m; the calls *)
(* its systems make on `this.world` reach the mock, not a World.           *)

(* createTestWorld(): the mock as the helper returns it.  sceneCode: null  *)
(* is written <<>>, like the undefined sceneCode of a new World.           *)
createTestWorld ==
    [entityHeap |-> <<>>, componentHeap |-> <<>>, entities |-> <<>>,
     sceneCode |-> <<>>, isPaused |-> FALSE,
     last |-> Call("createTestWorld", Null, Null, FALSE, Null),
     trace |-> <<>>]

MockReturn(m, op, arg, threw, ret, calls) ==
    [m EXCEPT !.last = Call(op, Null, arg, threw, ret), !.trace = calls]

(* mockWorld.createEntity(name)                                            *)
mock_createEntity(m, name) ==
    LET entity == Len(m.entityHeap) + 1
    IN  MockReturn([m EXCEPT !.entityHeap = Append(@, NewEntityObject(name)),
                             !.entities = MapSet(@, name, entity)],
                   "createEntity", name, FALSE, entity, <<>>)

(* mockWorld.removeEntity(entity)                                          *)
mock_removeEntity(m, e) ==
    MockReturn([m EXCEPT !.entities = MapDelete(@, m.entityHeap[e].name)],
               "removeEntity", e, FALSE, Null, <<>>)

(* mockWorld.search(name)                                                  *)
mock_search(m, isArray, name) ==
    MockReturn(m, "search", <<isArray, name>>, FALSE,
               IF isArray
               THEN SelectSeq([i \in 1..Len(name) |->
                                  MapGet(m.entities, name[i])],
                              LAMBDA e : e # Null)
               ELSE MapGet(m.entities, name),
               <<>>)

(* The array mockWorld.entitiesWith(componentClasses) returns.             *)
mock_entitiesWithArray(m, isArray, componentClasses) ==
    SelectSeq(MapValues(m.entities),
              LAMBDA e :
                 IF isArray
                 THEN \A i \in 1..Len(componentClasses) :
                         MapHas(m.entityHeap[e]._components,
                                componentClasses[i])
                 ELSE MapHas(m.entityHeap[e]._components, componentClasses))

(* mockWorld.entitiesWith(componentClasses)                                *)
mock_entitiesWith(m, isArray, componentClasses) ==
    MockReturn(m, "entitiesWith", <<isArray, componentClasses>>, FALSE,
               mock_entitiesWithArray(m, isArray, componentClasses), <<>>)

(* System.update(deltaTime) of a system whose world is the mock            *)
mock_update(m, system, deltaTime) ==
    IF system.isPauseable /\ m.isPaused
    THEN <<>>
    ELSE IF system.hasProcessEntity
         THEN HookCalls("processEntity", system,
                        mock_entitiesWithArray(m, TRUE,
                                               system.componentClasses),
                        deltaTime)
         ELSE <<>>

(* System.loadEntities() of a system whose world is the mock               *)
mock_loadEntities(m, system) ==
    IF ~system.hasLoadEntity
    THEN <<>>
    ELSE HookCalls("loadEntity", system,
                   mock_entitiesWithArray(m, TRUE, system.componentClasses),
                   Null)

RECURSIVE mock_loadSystemsCalls(_, _)
mock_loadSystemsCalls(m, systems) ==
    IF systems = <<>>
    THEN <<>>
    ELSE <<SystemCall("load", Head(systems), Null),
           SystemCall("loadEntities", Head(systems), Null)>>
         \o mock_loadEntities(m, Head(systems))
         \o mock_loadSystemsCalls(m, Tail(systems))

(* await mockWorld.loadSystems(): `if (!this.sceneCode) return;` comes     *)
(* before the forEach.                                                     *)
mock_loadSystems(m) ==
    MockReturn(m, "loadSystems", Null, FALSE, Null,
               IF m.sceneCode = <<>>
               THEN <<>>
               ELSE mock_loadSystemsCalls(m, m.sceneCode[1].systems))

RECURSIVE mock_updateSystemsCalls(_, _, _)
mock_updateSystemsCalls(m, systems, deltaTime) ==
    IF systems = <<>>
    THEN <<>>
    ELSE <<SystemCall("update", Head(systems), deltaTime)>>
         \o mock_update(m, Head(systems), deltaTime)
         \o mock_updateSystemsCalls(m, Tail(systems), deltaTime)

(* mockWorld.updateSystems(deltaTime), the mock's currentScene.isReady()   *)
(* yielding ready                                                          *)
mock_updateSystems(m, ready, deltaTime) ==
    MockReturn(m, "updateSystems", <<ready, deltaTime>>, FALSE, Null,
               IF m.sceneCode = <<>> \/ ~ready
               THEN <<>>
               ELSE mock_updateSystemsCalls(m, m.sceneCode[1].systems,
                                            deltaTime))

----------------------------------------------------------------------------
(* The generator script (scripts/generators/scene-generator.ts).  A file   *)
(* name is <<stem, extension>>, a path <<directory, file name>>, a file's  *)
(* text a sequence of tokens; a path that does not exist maps to Absent.   *)

Absent == <<"ENOENT">>
HandWritten == <<"written", "by", "hand">>

templates == << <<"Data", ".ts">>, <<"Component", ".ts">> >>
outPaths == <<"data/GameData/Shared", "src/components">>
templatesDir == "scripts/generators/templates"

(* The text of the two template files.                                     *)
TemplateText(tmpl) ==
    IF tmpl = <<"Data", ".ts">>
    THEN <<"export const ", "Blank", "Data = { ", "blank", ": {} }">>
    ELSE <<"export class ", "Blank", "Component {} // ", "blank">>

(* What the prompt can resolve to: a name, or the cancel symbol.           *)
CancelSymbol == "Symbol(clack:cancel)"
GeneratorNames == {"Foo", "Component"}

(* name.toLowerCase()                                                      *)
toLowerCase(name) == IF name = "Foo" THEN "foo" ELSE "component"

(* tmpl.replace(/^Data\.ts$/, `${name}.ts`)                                *)
(*     .replace(/^Component\.ts$/, `${name}.ts`)                           *)
outName(tmpl, name) ==
    LET first == IF tmpl = <<"Data", ".ts">> THEN <<name, ".ts">> ELSE tmpl
    IN  IF first = <<"Component", ".ts">> THEN <<name, ".ts">> ELSE first

(* content.replace(/Blank/g, name).replace(/blank/g, lower)                *)
Substitute(content, name, lower) ==
    LET first == [i \in 1..Len(content) |->
                     IF content[i] = "Blank" THEN name ELSE content[i]]
    IN  [i \in 1..Len(first) |->
            IF first[i] = "blank" THEN lower ELSE first[i]]

(* Every path the script can name as an output.                            *)
OutputPaths ==
    {<<outPaths[i], <<name, ".ts">>>> : i \in 1..2, name \in GeneratorNames}

(* A call of node:fs.                                                      *)
FsCall(method, path) ==
    [hook |-> method, system |-> Null, entity |-> Null, arg |-> path]

(* The loop of main() without the existsSync check.                        *)
RECURSIVE mainOverwriting(_, _, _)
mainOverwriting(st, name, i) ==
    IF i > Len(templates)
    THEN st
    ELSE LET tmpl == templates[i]
             srcPath == <<templatesDir, tmpl>>
             outPath == <<outPaths[i], outName(tmpl, name)>>
             content == Substitute(TemplateText(tmpl), name, toLowerCase(name))
         IN  mainOverwriting(
               [files |-> [st.files EXCEPT ![outPath] = content],
                calls |-> st.calls \o <<FsCall("readFileSync", srcPath),
                                        FsCall("writeFileSync", outPath)>>],
               name, i + 1)

(* The loop of main() from template i on: the file system and the fs calls *)
(* made so far are in st.                                                  *)
RECURSIVE main(_, _, _)
main(st, name, i) ==
    IF i > Len(templates)
    THEN st
    ELSE LET tmpl == templates[i]
             srcPath == <<templatesDir, tmpl>>
             outPath == <<outPaths[i], outName(tmpl, name)>>
             checked == st.calls \o <<FsCall("existsSync", outPath)>>
         IN  IF st.files[outPath] # Absent
             THEN main([st EXCEPT !.calls = checked], name, i + 1)
             ELSE LET content == Substitute(TemplateText(tmpl), name,
                                            toLowerCase(name))
                  IN  main(
                        [files |-> [st.files EXCEPT ![outPath] = content],
                         calls |-> checked
                                   \o <<FsCall("readFileSync", srcPath),
                                        FsCall("writeFileSync", outPath)>>],
                        name, i + 1)

worldVars == <<entityHeap, componentHeap, entities, componentCache,
               sceneCode, originalSceneData, worldEntity, isPaused, modules,
               page, log, mock>>

(* await main(), the prompt resolving to answer: a cancelled prompt ends   *)
(* the process before any file is touched.                                 *)
Main(answer) ==
    /\ LET after == IF answer = CancelSymbol
                    THEN [files |-> files, calls |-> <<>>]
                    ELSE main([files |-> files, calls |-> <<>>], answer, 1)
       IN  /\ files' = after.files
           /\ trace' = after.calls
    /\ last' = Call("main", Null, answer, FALSE, Null)
    /\ UNCHANGED worldVars

(* A developer writes a file by hand, or deletes one.                      *)
WriteByHand(path) ==
    /\ files' = [files EXCEPT ![path] = HandWritten]
    /\ last' = Call("write by hand", Null, path, FALSE, Null)
    /\ trace' = <<>>
    /\ UNCHANGED worldVars

Unlink(path) ==
    /\ files[path] # Absent
    /\ files' = [files EXCEPT ![path] = Absent]
    /\ last' = Call("unlink", Null, path, FALSE, Null)
    /\ trace' = <<>>
    /\ UNCHANGED worldVars

(* A checkout in which no output of the generator exists yet.              *)
NoOutputs == [path \in OutputPaths |-> Absent]

(* A World that no page of main.ts drives.                                 *)
NoPage == [pc |-> "none", pending |-> <<>>, renderLoop |-> FALSE, frames |-> 0]

(* The host of a World built by a test: no generator runs, no page.        *)
HostIdle ==
    /\ files = NoOutputs
    /\ page = NoPage
    /\ log = <<>>
    /\ mock = createTestWorld

----------------------------------------------------------------------------
(* The page (main.ts): the DOMContentLoaded handler constructs a World,    *)
(* awaits loadSceneData and calls start().  The handler yields to the      *)
(* browser at the fetch and at every import; what follows the last import  *)
(* runs without yielding.  page.pc is what the handler does next.          *)

MaxFrames == 2        \* animation frames of the browser in one behaviour

(* The positions from which the handler continues without yielding.        *)
SyncPcs == {"construct", "start", "runRenderLoop"}

PageCall(hook, arg) ==
    [hook |-> hook, system |-> Null, entity |-> Null, arg |-> arg]

(* The constructions of loadSceneCode's entity loop, in order: one         *)
(* createEntity per declared entity, one construction per declared kind    *)
(* the cache holds.                                                        *)
RECURSIVE ConstructionCalls(_, _)
ConstructionCalls(decls, cache) ==
    IF decls = <<>>
    THEN <<>>
    ELSE LET cached == SelectSeq(Head(decls).components,
                                 LAMBDA decl : MapHas(cache, decl.kind))
         IN  <<PageCall("createEntity", Head(decls).name)>>
             \o [i \in 1..Len(cached) |->
                    PageCall("new Component", cached[i].kind)]
             \o ConstructionCalls(Tail(decls), cache)

(* `await fetch(...)` and `await response.json()` resolve with body:       *)
(* loadSceneData checks it, stores it and enters loadSceneCode, which      *)
(* starts the first import.                                                *)
FetchResolves(body) ==
    /\ page.pc = "fetch"
    /\ LET checked == loadSceneData(body)
           kinds == IF checked.threw
                    THEN <<>>
                    ELSE NewSet(FlatKinds(body.value.entities))
       IN  /\ originalSceneData' = checked.originalSceneData
           /\ last' = Call("fetch", Null, body, checked.threw, checked.ret)
           /\ page' = [page EXCEPT
                         !.pc = IF checked.threw THEN "rejected"
                                ELSE IF kinds = <<>> THEN "construct"
                                ELSE "import",
                         !.pending = kinds]
    /\ trace' = <<PageCall("fetch", Null)>>
    /\ log' = log \o trace'
    /\ UNCHANGED <<entityHeap, componentHeap, entities, componentCache,
                   sceneCode, worldEntity, isPaused, modules, files, mock>>

(* `await this.importComponentAndSystem(componentType)` resolves for the   *)
(* kind the resolution loop stands at; the loop starts the next import or  *)
(* ends.                                                                   *)
ImportResolves ==
    /\ page.pc = "import"
    /\ LET componentType == Head(page.pending)
       IN  /\ componentCache' = ResolveKinds(componentCache, <<componentType>>)
           /\ trace' = ImportCalls(<<componentType>>)
           /\ last' = Call("import", Null, componentType, FALSE, Null)
    /\ page' = [page EXCEPT
                  !.pending = Tail(@),
                  !.pc = IF Tail(page.pending) = <<>> THEN "construct"
                         ELSE "import"]
    /\ log' = log \o trace'
    /\ UNCHANGED <<entityHeap, componentHeap, entities, sceneCode,
                   originalSceneData, worldEntity, isPaused, modules,
                   files, mock>>

(* The rest of loadSceneCode and of loadSceneData: the entity loop, the    *)
(* system loop, this.sceneCode = the bundle.                               *)
Construct ==
    /\ page.pc = "construct"
    /\ LET data == originalSceneData[1]
           after == loadSceneCodeAfterResolution(data, componentCache)
       IN  /\ entityHeap' = after.entityHeap
           /\ componentHeap' = after.componentHeap
           /\ entities' = after.entities
           /\ worldEntity' = after.worldEntity
           /\ sceneCode' = <<after.bundle>>
           /\ trace' = ConstructionCalls(data.entities, componentCache)
                       \o [i \in 1..Len(after.bundle.systems) |->
                             SystemCall("new System", after.bundle.systems[i],
                                        Null)]
    /\ last' = Call("loadSceneData", Null, Null, FALSE, Null)
    /\ page' = [page EXCEPT !.pc = "start"]
    /\ log' = log \o trace'
    /\ UNCHANGED <<componentCache, originalSceneData, isPaused, modules,
                   files, mock>>

(* A start() that enters the render loop without loading the systems.      *)
StartWithoutLoadSystems ==
    /\ page.pc = "start"
    /\ trace' = <<PageCall("runRenderLoop", Null)>>
    /\ last' = Call("start", Null, Null, FALSE, Null)
    /\ page' = [page EXCEPT !.pc = "running", !.renderLoop = TRUE]
    /\ log' = log \o trace'
    /\ UNCHANGED <<entityHeap, componentHeap, entities, componentCache,
                   sceneCode, originalSceneData, worldEntity, isPaused,
                   modules, files, mock>>

(* world.start() up to its await: this.loadSystems()                       *)
Start ==
    /\ page.pc = "start"
    /\ trace' = loadSystems(sceneCode[1].systems)
    /\ last' = Call("loadSystems", Null, Null, FALSE, Null)
    /\ page' = [page EXCEPT !.pc = "runRenderLoop"]
    /\ log' = log \o trace'
    /\ UNCHANGED <<entityHeap, componentHeap, entities, componentCache,
                   sceneCode, originalSceneData, worldEntity, isPaused,
                   modules, files, mock>>

(* world.start() after its await: this.engine.runRenderLoop(callback)      *)
RunRenderLoop ==
    /\ page.pc = "runRenderLoop"
    /\ trace' = <<PageCall("runRenderLoop", Null)>>
    /\ last' = Call("start", Null, Null, FALSE, Null)
    /\ page' = [page EXCEPT !.pc = "running", !.renderLoop = TRUE]
    /\ log' = log \o trace'
    /\ UNCHANGED <<entityHeap, componentHeap, entities, componentCache,
                   sceneCode, originalSceneData, worldEntity, isPaused,
                   modules, files, mock>>

(* An animation frame of the browser: the engine calls the callback of     *)
(* runRenderLoop if one is registered; the callback returns when the scene *)
(* is not ready and calls updateSystems(deltaTime) otherwise.              *)
Frame(ready, deltaTime) ==
    /\ page.pc \notin SyncPcs
    /\ page.frames < MaxFrames
    /\ trace' = <<PageCall("frame", Null)>>
                \o IF page.renderLoop /\ ready /\ sceneCode # <<>>
                   THEN updateSystems(sceneCode[1].systems, ready, deltaTime)
                   ELSE <<>>
    /\ last' = Call("frame", Null, <<ready, deltaTime>>, FALSE, Null)
    /\ page' = [page EXCEPT !.frames = @ + 1]
    /\ log' = log \o trace'
    /\ UNCHANGED <<entityHeap, componentHeap, entities, componentCache,
                   sceneCode, originalSceneData, worldEntity, isPaused,
                   modules, files, mock>>

(* The state after `new World(canvasId)`; the modules the dynamic import   *)
(* can find are fixed for the life of the page.                            *)
Init ==
    /\ entityHeap = <<>>
    /\ componentHeap = <<>>
    /\ entities = <<>>
    /\ componentCache = <<>>
    /\ sceneCode = <<>>
    /\ originalSceneData = <<>>
    /\ worldEntity = Null
    /\ isPaused = FALSE
    /\ modules \in [KindIds -> ImportOutcomes]
    /\ last = Call("new World", Null, Null, FALSE, Null)
    /\ trace = <<>>
    /\ HostIdle

AllModulesPresent == [k \in KindIds |-> "ok"]

(* Objects client code constructs before it calls into the ECS, as the     *)
(* tests do in beforeEach: entity i is new Entity(FixtureName(i)); two     *)
(* components of one class and one of another.                             *)
FixtureName(i) == IF i % 2 = 1 THEN "Player" ELSE "Enemy"
FixtureComponents ==
    << NewComponentObject("TestComponent", [testValue |-> "x"]),
       NewComponentObject("AnotherTestComponent",
                          [name |-> "n", enabled |-> FALSE]),
       NewComponentObject("TestComponent", [testValue |-> "y"]) >>
FixtureEntities ==
    [i \in 1..NumEntities |-> NewEntityObject(FixtureName(i))]

(* One component of each class, as in the fixture of the World tests.       *)
OneComponentPerClass ==
    << NewComponentObject("TestComponent", [testValue |-> "x"]),
       NewComponentObject("AnotherTestComponent", [name |-> "n"]) >>

(* A World, and components constructed but not yet added to any entity.    *)
InitWorld ==
    /\ entityHeap = <<>>
    /\ componentHeap = OneComponentPerClass
    /\ entities = <<>>
    /\ componentCache = <<>>
    /\ sceneCode = <<>>
    /\ originalSceneData = <<>>
    /\ worldEntity = Null
    /\ isPaused = FALSE
    /\ modules = AllModulesPresent
    /\ last = Call("new World", Null, Null, FALSE, Null)
    /\ trace = <<>>
    /\ HostIdle

(* Client code changing a World's registry and the components of its      *)
(* entities, and querying the registry.                                    *)
Next ==
    \/ \E name \in Names : CreateEntity(name)
    \/ \E e \in EntityIds : RemoveEntity(e)
    \/ \E e \in EntityIds, c \in ComponentIds : AddComponent(e, c)
    \/ \E e \in EntityIds, c \in ComponentIds : RemoveComponent(e, c)
    \/ \E classes \in ClassArrays : EntitiesWith(TRUE, classes)
    \/ \E class \in ComponentClasses : EntitiesWith(FALSE, class)

Spec == InitWorld /\ [][Next]_vars

(* The same client code with systems running between its changes.          *)
SystemNext ==
    \/ \E name \in Names : CreateEntity(name)
    \/ \E e \in EntityIds : RemoveEntity(e)
    \/ \E e \in EntityIds, c \in ComponentIds : AddComponent(e, c)
    \/ \E e \in EntityIds, c \in ComponentIds : RemoveComponent(e, c)
    \/ \E b \in BOOLEAN : SetPaused(b)
    \/ \E system \in Systems, dt \in DeltaTimes : Update(system, dt)
    \/ \E system \in Systems : LoadEntities(system)

SystemSpec == InitWorld /\ [][SystemNext]_vars

(* Entities and components constructed by client code, no World involved.  *)
InitEntity ==
    /\ entityHeap = FixtureEntities
    /\ componentHeap = FixtureComponents
    /\ entities = <<>>
    /\ componentCache = <<>>
    /\ sceneCode = <<>>
    /\ originalSceneData = <<>>
    /\ worldEntity = Null
    /\ isPaused = FALSE
    /\ modules = AllModulesPresent
    /\ last = Call("new Entity", Null, Null, FALSE, Null)
    /\ trace = <<>>
    /\ HostIdle

EntityNext ==
    \/ \E e \in EntityIds, c \in ComponentIds : AddComponent(e, c)
    \/ \E e \in EntityIds, c \in ComponentIds : RemoveComponent(e, c)
    \/ \E e \in EntityIds, class \in ComponentClasses : GetComponent(e, class)

EntitySpec == InitEntity /\ [][EntityNext]_vars

(* The names client code searches for, one of them never registered, and   *)
(* the arrays of names it passes.                                          *)
SearchNames == Names \cup {"NonExistent"}
NameArrays == UNION {[1..n -> SearchNames] : n \in 0..3}

(* A World with an empty registry, alone or beside an entity that client   *)
(* code constructed with `new Entity("Player")` and never registered.      *)
InitRegistry ==
    /\ entityHeap \in {<<>>, <<NewEntityObject("Player")>>}
    /\ componentHeap = <<>>
    /\ entities = <<>>
    /\ componentCache = <<>>
    /\ sceneCode = <<>>
    /\ originalSceneData = <<>>
    /\ worldEntity = Null
    /\ isPaused = FALSE
    /\ modules = AllModulesPresent
    /\ last = Call("new World", Null, Null, FALSE, Null)
    /\ trace = <<>>
    /\ HostIdle

(* Client code creating, removing and looking up entities by name.         *)
RegistryNext ==
    \/ \E name \in Names : CreateEntity(name)
    \/ \E e \in EntityIds : RemoveEntity(e)
    \/ \E names \in NameArrays : Search(TRUE, names)
    \/ \E name \in SearchNames : Search(FALSE, name)

RegistrySpec == InitRegistry /\ [][RegistryNext]_vars

(* Two entities, and client code that constructs a component from an      *)
(* input record, adds it to an entity and serializes it.                   *)
InitComponent ==
    /\ entityHeap = <<NewEntityObject("Player"), NewEntityObject("Enemy")>>
    /\ componentHeap = <<>>
    /\ entities = <<>>
    /\ componentCache = <<>>
    /\ sceneCode = <<>>
    /\ originalSceneData = <<>>
    /\ worldEntity = Null
    /\ isPaused = FALSE
    /\ modules = AllModulesPresent
    /\ last = Call("new Entity", Null, Null, FALSE, Null)
    /\ trace = <<>>
    /\ HostIdle

ComponentNext ==
    \/ \E class \in ComponentClasses, data \in ConstructorRecords :
          NewComponent(class, data)
    \/ \E e \in EntityIds, c \in ComponentIds : AddComponent(e, c)
    \/ \E e \in EntityIds, c \in ComponentIds : RemoveComponent(e, c)
    \/ \E c \in ComponentIds : Serialize(c)
    \/ \E c \in ComponentIds : ComponentToJSON(c)

ComponentSpec == InitComponent /\ [][ComponentNext]_vars

(* Two entities and the components of the Entity tests: client code adds   *)
(* and removes components, by instance and by class, and serializes the    *)
(* entities.                                                               *)
InitSerialize ==
    /\ entityHeap = <<NewEntityObject("Player"), NewEntityObject("Enemy")>>
    /\ componentHeap = FixtureComponents
    /\ entities = <<>>
    /\ componentCache = <<>>
    /\ sceneCode = <<>>
    /\ originalSceneData = <<>>
    /\ worldEntity = Null
    /\ isPaused = FALSE
    /\ modules = AllModulesPresent
    /\ last = Call("new Entity", Null, Null, FALSE, Null)
    /\ trace = <<>>
    /\ HostIdle

SerializeNext ==
    \/ \E e \in EntityIds, c \in ComponentIds : AddComponent(e, c)
    \/ \E e \in EntityIds, c \in ComponentIds : RemoveComponent(e, c)
    \/ \E e \in EntityIds, class \in ComponentClasses :
          RemoveComponentClass(e, class)
    \/ \E e \in EntityIds : ToJSON(e)

SerializeSpec == InitSerialize /\ [][SerializeNext]_vars

(* Scene descriptions loaded into a World, one after another.              *)
SceneNext ==
    \E data \in SceneDescriptions : LoadSceneCode(data)

SceneSpec == Init /\ [][SceneNext]_vars

(* The page of main.ts: a World whose modules all resolve loads scene      *)
(* files, loads its systems and updates them frame after frame.            *)
InitPage ==
    /\ entityHeap = <<>>
    /\ componentHeap = <<>>
    /\ entities = <<>>
    /\ componentCache = <<>>
    /\ sceneCode = <<>>
    /\ originalSceneData = <<>>
    /\ worldEntity = Null
    /\ isPaused = FALSE
    /\ modules = AllModulesPresent
    /\ last = Call("new World", Null, Null, FALSE, Null)
    /\ trace = <<>>
    /\ HostIdle

WorldNext ==
    \/ \E body \in ResponseBodies : LoadSceneData(body)
    \/ LoadSystems
    \/ \E ready \in BOOLEAN, dt \in DeltaTimes : UpdateSystems(ready, dt)
    \/ \E b \in BOOLEAN : SetPaused(b)
    \/ \E e \in EntityIds : RemoveEntity(e)

WorldSpec == InitPage /\ [][WorldNext]_vars

(* A developer running the generator between edits of the working tree.    *)
InitGenerator ==
    /\ entityHeap = <<>>
    /\ componentHeap = <<>>
    /\ entities = <<>>
    /\ componentCache = <<>>
    /\ sceneCode = <<>>
    /\ originalSceneData = <<>>
    /\ worldEntity = Null
    /\ isPaused = FALSE
    /\ modules = AllModulesPresent
    /\ last = Call("checkout", Null, Null, FALSE, Null)
    /\ trace = <<>>
    /\ files = NoOutputs
    /\ page = NoPage
    /\ log = <<>>
    /\ mock = createTestWorld

GeneratorNext ==
    \/ \E answer \in GeneratorNames \cup {CancelSymbol} : Main(answer)
    \/ \E path \in OutputPaths : WriteByHand(path)
    \/ \E path \in OutputPaths : Unlink(path)

GeneratorSpec == InitGenerator /\ [][GeneratorNext]_vars

(* Code of the page that runs once the game runs: world.createEntity under *)
(* a name that is not registered, entity.addComponent.                     *)
LateCreateEntity(name) ==
    /\ page.pc = "running"
    /\ ~MapHas(entities, name)
    /\ CreateEntity(name)

LateAddComponent(e, c) ==
    /\ page.pc = "running"
    /\ AddComponent(e, c)

(* main.ts after `new World(canvasId)` and the call of loadSceneData: the  *)
(* fetch is pending; the module of one kind may be missing.  Once the game *)
(* runs, code of the page (an event handler, the console) creates entities *)
(* under names that are not registered, and adds components.               *)
InitStartup ==
    /\ entityHeap = <<>>
    /\ componentHeap = <<>>
    /\ entities = <<>>
    /\ componentCache = <<>>
    /\ sceneCode = <<>>
    /\ originalSceneData = <<>>
    /\ worldEntity = Null
    /\ isPaused = FALSE
    /\ modules \in {AllModulesPresent,
                    [AllModulesPresent EXCEPT !["AnotherTest"] = "throws"]}
    /\ last = Call("new World", Null, Null, FALSE, Null)
    /\ trace = <<>>
    /\ files = NoOutputs
    /\ page = [pc |-> "fetch", pending |-> <<>>, renderLoop |-> FALSE,
               frames |-> 0]
    /\ log = <<>>
    /\ mock = createTestWorld

StartupNext ==
    \/ \E body \in ResponseBodies : FetchResolves(body)
    \/ ImportResolves
    \/ Construct
    \/ Start
    \/ RunRenderLoop
    \/ \E ready \in BOOLEAN, dt \in DeltaTimes : Frame(ready, dt)
    \/ \E name \in Names : LateCreateEntity(name)
    \/ \E e \in EntityIds, c \in ComponentIds : LateAddComponent(e, c)

StartupSpec == InitStartup /\ [][StartupNext]_vars

(* A World under test: two components constructed beforehand, a bundle set *)
(* by the test, client code that registers entities and adds components,   *)
(* and calls of the systems and of the World's loops.  The hooks modelled  *)
(* here do not read deltaTime, so one value per caller is enough.          *)
InitHooks ==
    /\ entityHeap = <<>>
    /\ componentHeap = OneComponentPerClass
    /\ entities = <<>>
    /\ componentCache = <<>>
    /\ sceneCode \in {<<[systems |-> systems]>> : systems \in HookBundles}
    /\ originalSceneData = <<>>
    /\ worldEntity = Null
    /\ isPaused = FALSE
    /\ modules = AllModulesPresent
    /\ last = Call("new World", Null, Null, FALSE, Null)
    /\ trace = <<>>
    /\ HostIdle

HooksNext ==
    \/ \E name \in Names : CreateEntity(name)
    \/ \E e \in EntityIds, c \in ComponentIds : AddComponent(e, c)
    \/ \E i \in 1..Len(sceneCode[1].systems) :
          HookUpdate(sceneCode[1].systems[i], 16)
    \/ \E i \in 1..Len(sceneCode[1].systems) :
          HookLoadEntities(sceneCode[1].systems[i])
    \/ HookLoadSystems
    \/ HookUpdateSystems(33)

HooksSpec == InitHooks /\ [][HooksNext]_vars

----------------------------------------------------------------------------
(* A test that drives a World and a mock world with the same calls.        *)

(* What a call on the World leaves behind, the rest of the World aside.    *)
WorldReturn(op, arg, threw, ret, calls) ==
    /\ last' = Call(op, Null, arg, threw, ret)
    /\ trace' = calls
    /\ UNCHANGED <<componentCache, originalSceneData, worldEntity, modules,
                   files, page, log>>

(* createEntity(name) on both                                              *)
BothCreateEntity(name) ==
    /\ Len(entityHeap) < MaxEntities
    /\ LET after == createEntity(entityHeap, entities, name)
       IN  /\ entityHeap' = after.entityHeap
           /\ entities' = after.entities
           /\ WorldReturn("createEntity", name, FALSE, after.entity, <<>>)
    /\ mock' = mock_createEntity(mock, name)
    /\ UNCHANGED <<componentHeap, sceneCode, isPaused>>

(* entity.addComponent(component) on the e-th entity of each world, the    *)
(* component being one no entity owns yet                                  *)
BothAddComponent(e, c) ==
    /\ componentHeap[c].fields.entity = Null
    /\ LET after == addComponent(entityHeap, componentHeap, e, c)
       IN  /\ entityHeap' = after.entityHeap
           /\ componentHeap' = after.componentHeap
           /\ WorldReturn("addComponent", <<e, c>>, FALSE, e, <<>>)
    /\ LET after == addComponent(mock.entityHeap, mock.componentHeap, e, c)
       IN  mock' = MockReturn([mock EXCEPT
                                 !.entityHeap = after.entityHeap,
                                 !.componentHeap = after.componentHeap],
                              "addComponent", <<e, c>>, FALSE, e, <<>>)
    /\ UNCHANGED <<entities, sceneCode, isPaused>>

(* removeEntity(entity) on both, the entity being the e-th of each world   *)
BothRemoveEntity(e) ==
    /\ entities' = removeEntity(entities, entityHeap[e].name)
    /\ WorldReturn("removeEntity", e, FALSE, Null, <<>>)
    /\ mock' = mock_removeEntity(mock, e)
    /\ UNCHANGED <<entityHeap, componentHeap, sceneCode, isPaused>>

(* search(name) on both                                                    *)
BothSearch(isArray, name) ==
    /\ WorldReturn("search", <<isArray, name>>, FALSE, search(isArray, name),
                   <<>>)
    /\ mock' = mock_search(mock, isArray, name)
    /\ UNCHANGED <<entityHeap, componentHeap, entities, sceneCode, isPaused>>

(* entitiesWith(componentClasses) on both                                  *)
BothEntitiesWith(isArray, componentClasses) ==
    /\ WorldReturn("entitiesWith", <<isArray, componentClasses>>, FALSE,
                   entitiesWith(isArray, componentClasses), <<>>)
    /\ mock' = mock_entitiesWith(mock, isArray, componentClasses)
    /\ UNCHANGED <<entityHeap, componentHeap, entities, sceneCode, isPaused>>

(* await loadSystems() on both                                             *)
BothLoadSystems ==
    /\ IF sceneCode = <<>>
       THEN WorldReturn("loadSystems", Null, TRUE, "TypeError", <<>>)
       ELSE WorldReturn("loadSystems", Null, FALSE, Null,
                        loadSystems(sceneCode[1].systems))
    /\ mock' = mock_loadSystems(mock)
    /\ UNCHANGED <<entityHeap, componentHeap, entities, sceneCode, isPaused>>

(* updateSystems(deltaTime) on both, each scene's isReady() yielding ready *)
BothUpdateSystems(ready, deltaTime) ==
    /\ WorldReturn("updateSystems", <<ready, deltaTime>>, FALSE, Null,
                   IF sceneCode = <<>>
                   THEN <<>>
                   ELSE updateSystems(sceneCode[1].systems, ready, deltaTime))
    /\ mock' = mock_updateSystems(mock, ready, deltaTime)
    /\ UNCHANGED <<entityHeap, componentHeap, entities, sceneCode, isPaused>>

(* world.sceneCode = bundle on both; <<>> is `world.sceneCode = null`      *)
BothSetSceneCode(bundle) ==
    /\ sceneCode' = bundle
    /\ WorldReturn("setSceneCode", bundle, FALSE, Null, <<>>)
    /\ mock' = MockReturn([mock EXCEPT !.sceneCode = bundle],
                          "setSceneCode", bundle, FALSE, Null, <<>>)
    /\ UNCHANGED <<entityHeap, componentHeap, entities, isPaused>>

(* world.isPaused = b on both                                              *)
BothSetPaused(b) ==
    /\ isPaused' = b
    /\ WorldReturn("setPaused", b, FALSE, Null, <<>>)
    /\ mock' = MockReturn([mock EXCEPT !.isPaused = b],
                          "setPaused", b, FALSE, Null, <<>>)
    /\ UNCHANGED <<entityHeap, componentHeap, entities, sceneCode>>

(* The arrays of names and of classes the test queries with.               *)
MockNameArrays ==
    {<<>>, <<"Player", "NonExistent">>, <<"Enemy", "Player">>}
MockClassArrays ==
    {<<>>, <<"TestComponent">>, <<"TestComponent", "AnotherTestComponent">>}

(* The bundles a test assigns: none, one system, two systems.              *)
MockSceneCodes ==
    {<<>>}
    \cup {<<[entities |-> <<>>, componentTypes |-> <<>>,
             systems |-> systems, components |-> <<>>]>> :
            systems \in {<<SystemObject(<<"TestComponent">>, FALSE, TRUE,
                                        TRUE)>>,
                         <<SystemObject(<<"TestComponent">>, TRUE, TRUE,
                                        TRUE),
                           SystemObject(<<"AnotherTestComponent">>, FALSE,
                                        FALSE, FALSE)>>}}

(* A new World and a new mock world, and one component of each class       *)
(* constructed for the entities of each.                                   *)
InitMock ==
    /\ entityHeap = <<>>
    /\ componentHeap = OneComponentPerClass
    /\ entities = <<>>
    /\ componentCache = <<>>
    /\ sceneCode = <<>>
    /\ originalSceneData = <<>>
    /\ worldEntity = Null
    /\ isPaused = FALSE
    /\ modules = AllModulesPresent
    /\ last = Call("new World", Null, Null, FALSE, Null)
    /\ trace = <<>>
    /\ files = NoOutputs
    /\ page = NoPage
    /\ log = <<>>
    /\ mock = [createTestWorld EXCEPT !.componentHeap = OneComponentPerClass]

MockNext ==
    \/ \E name \in Names : BothCreateEntity(name)
    \/ \E e \in EntityIds, c \in ComponentIds : BothAddComponent(e, c)
    \/ \E e \in EntityIds : BothRemoveEntity(e)
    \/ \E name \in SearchNames : BothSearch(FALSE, name)
    \/ \E names \in MockNameArrays : BothSearch(TRUE, names)
    \/ \E class \in ComponentClasses : BothEntitiesWith(FALSE, class)
    \/ \E classes \in MockClassArrays : BothEntitiesWith(TRUE, classes)
    \/ BothLoadSystems
    \/ \E ready \in BOOLEAN, dt \in DeltaTimes : BothUpdateSystems(ready, dt)
    \/ \E bundle \in MockSceneCodes : BothSetSceneCode(bundle)
    \/ \E b \in BOOLEAN : BothSetPaused(b)

MockSpec == InitMock /\ [][MockNext]_vars

----------------------------------------------------------------------------
(* Properties of Entity, checked under EntitySpec.                         *)

ComponentsOf(e) == entityHeap[e]._components

(* C1: immediately after E.addComponent(c), with c of kind K, whatever E   *)
(* held before: E.hasComponent(K) is true, E.getComponent(K) returns c     *)
(* itself, c's back-reference is E, and the call returned E.               *)
C1_AddComponentStores ==
    last.op = "addComponent" =>
        LET e == last.self
            c == last.arg
            K == componentHeap[c].kind
        IN  /\ hasComponent(e, K)
            /\ getComponent(e, K) = [threw |-> FALSE, ret |-> c]
            /\ componentHeap[c].fields.entity = e
            /\ ~last.threw
            /\ last.ret = e

(* C1's case: an instance another entity still stores is added to an      *)
(* entity that holds a component of another kind.                          *)
C1_Witness ==
    /\ last.op = "addComponent"
    /\ Len(ComponentsOf(last.self)) = 2
    /\ \E other \in EntityIds \ {last.self} :
          MapGet(ComponentsOf(other), componentHeap[last.arg].kind) = last.arg

(* At most one entry per kind, each stored under its component's kind.     *)
OneComponentPerKind(e) ==
    LET m == entityHeap[e]._components
    IN  /\ \A i, j \in 1..Len(m) : m[i].key = m[j].key => i = j
        /\ \A i \in 1..Len(m) : componentHeap[m[i].value].kind = m[i].key

(* C2: an entity holds at most one component per kind after any sequence   *)
(* of addComponent/removeComponent calls, and adding a component of a kind *)
(* already present replaces the stored one: getComponent returns the       *)
(* second instance and the entity's component count is unchanged.          *)
C2_OneComponentPerKind ==
    [][ /\ \A e \in EntityIds : OneComponentPerKind(e)'
        /\ (last'.op = "addComponent"
              /\ hasComponent(last'.self, componentHeap[last'.arg].kind))
           => LET e == last'.self
                  c == last'.arg
              IN  /\ Len(entityHeap'[e]._components)
                       = Len(entityHeap[e]._components)
                  /\ MapGet(entityHeap'[e]._components, componentHeap[c].kind)
                       = c ]_vars

(* C2's case: a second component of the kind was added over a first one,   *)
(* which still points back at the entity but is no longer stored.          *)
C2_Witness ==
    /\ last.op = "addComponent"
    /\ \E first \in ComponentIds \ {last.arg} :
          /\ componentHeap[first].kind = componentHeap[last.arg].kind
          /\ componentHeap[first].fields.entity = last.self
    /\ Len(ComponentsOf(last.self)) = 1

(* C3: getComponent(K) on an entity that holds no K fails with the message *)
(* "<K> Not Found for <name>" and changes no component map; it returns the *)
(* stored component, without error, exactly when hasComponent(K) is true.  *)
C3_GetComponentNotFound ==
    [][ last'.op = "getComponent" =>
          LET e == last'.self
              K == last'.arg
          IN  /\ entityHeap' = entityHeap
              /\ componentHeap' = componentHeap
              /\ last'.threw <=> ~hasComponent(e, K)
              /\ last'.threw =>
                   last'.ret = <<K, " Not Found for ", entityHeap[e].name>>
              /\ ~last'.threw =>
                   /\ last'.ret \in ComponentIds
                   /\ componentHeap[last'.ret].kind = K
                   /\ \E i \in 1..Len(ComponentsOf(e)) :
                         ComponentsOf(e)[i] = [key |-> K, value |-> last'.ret]
      ]_vars

(* C3's case: the lookup failed on an entity that holds another kind.      *)
C3_Witness ==
    /\ last.op = "getComponent"
    /\ last.threw
    /\ last.ret = <<"AnotherTestComponent", " Not Found for ", "Enemy">>
    /\ hasComponent(last.self, "TestComponent")

(* C4: removeComponent(c) changes nothing but the entry keyed by c's kind: *)
(* afterwards hasComponent(kind of c) is false and every entry of another  *)
(* kind is unchanged; when the entity holds no entry of c's kind the call  *)
(* does not raise and the component count is unchanged.                    *)
C4_RemoveComponentFrame ==
    [][ last'.op = "removeComponent" =>
          LET e == last'.self
              c == last'.arg
              K == componentHeap[c].kind
              before == entityHeap[e]._components
              after == entityHeap'[e]._components
          IN  /\ ~MapHas(after, K)
              /\ after = SelectSeq(before, LAMBDA en : en.key # K)
              /\ \A o \in EntityIds \ {e} : entityHeap'[o] = entityHeap[o]
              /\ entityHeap'[e].name = entityHeap[e].name
              /\ componentHeap' = componentHeap
              /\ entities' = entities
              /\ ~last'.threw
              /\ last'.ret = e
              /\ ~MapHas(before, K) => Len(after) = Len(before)
      ]_vars

(* C4's case: a stored component was removed from an entity that keeps a   *)
(* component of another kind.                                              *)
C4_Witness ==
    /\ last.op = "removeComponent"
    /\ componentHeap[last.arg].fields.entity = last.self
    /\ ~hasComponent(last.self, componentHeap[last.arg].kind)
    /\ Len(ComponentsOf(last.self)) = 1

----------------------------------------------------------------------------
(* Properties of the World's queries and of System, checked under Spec and *)
(* SystemSpec.                                                             *)

Range(seq) == {seq[i] : i \in 1..Len(seq)}

Registered == {entities[i].value : i \in 1..Len(entities)}

(* The registered entities that hold every class of an array.              *)
Matching(classes) ==
    {e \in Registered : \A i \in 1..Len(classes) : hasComponent(e, classes[i])}

(* C5: entitiesWith([K1..Kn]) returns exactly the registered entities that *)
(* hold every Ki (AND, not OR), entitiesWith(K) exactly the registered     *)
(* entities that hold K: no unregistered entity is returned, no matching   *)
(* registered entity is omitted, none is returned twice.                   *)
C5_EntitiesWithIsConjunction ==
    last.op = "entitiesWith" =>
        LET isArray == last.arg[1]
            classes == last.arg[2]
            expected == IF isArray
                        THEN Matching(classes)
                        ELSE {e \in Registered : hasComponent(e, classes)}
        IN  /\ Range(last.ret) = expected
            /\ Len(last.ret) = Cardinality(expected)
            /\ ~last.threw

(* C5's case: a query for two classes returns the one registered entity    *)
(* that holds both and leaves out a registered entity that holds one.      *)
C5_Witness ==
    /\ last.op = "entitiesWith"
    /\ last.arg = <<TRUE, <<"TestComponent", "AnotherTestComponent">>>>
    /\ Len(last.ret) = 1
    /\ \E e \in Registered \ Range(last.ret) : hasComponent(e, "TestComponent")

(* The entities a pass handed to a hook, in call order.                    *)
HookEntities(hook) ==
    LET calls == SelectSeq(trace, LAMBDA call : call.hook = hook)
    IN  [i \in 1..Len(calls) |-> calls[i].entity]

(* C6: update while the World is paused invokes processEntity on no entity *)
(* when the system is pauseable and on every matching entity when it is    *)
(* not; while the World is not paused both kinds of system process their   *)
(* matching entities.                                                      *)
C6_PauseSkipsPauseableOnly ==
    (last.op = "update" /\ last.self.hasProcessEntity) =>
        LET system == last.self
            processed == HookEntities("processEntity")
        IN  IF isPaused /\ system.isPauseable
            THEN trace = <<>>
            ELSE /\ Range(processed) = Matching(system.componentClasses)
                 /\ Len(processed) = Len(trace)

(* C6's case: a pauseable system was updated while the World was paused    *)
(* and an entity matched its classes.                                      *)
C6_Witness ==
    /\ last.op = "update"
    /\ isPaused
    /\ last.self.isPauseable
    /\ last.self.hasProcessEntity
    /\ Matching(last.self.componentClasses) # {}
    /\ trace = <<>>

(* C7: a System keeps no membership list of its own: whatever createEntity,*)
(* removeEntity, addComponent and removeComponent calls came before, a     *)
(* System.update (not skipped by the pause rule) or System.loadEntities    *)
(* call invokes its hook once for each entity that is registered and holds *)
(* every required class at the time of the call, and for no other.         *)
C7_FreshQueryEveryCall ==
    /\ (last.op = "update" /\ last.self.hasProcessEntity
          /\ ~(isPaused /\ last.self.isPauseable)) =>
         LET processed == HookEntities("processEntity")
         IN  /\ Range(processed) = Matching(last.self.componentClasses)
             /\ Len(processed) = Cardinality(Range(processed))
             /\ Len(trace) = Len(processed)
    /\ (last.op = "loadEntities" /\ last.self.hasLoadEntity) =>
         LET loaded == HookEntities("loadEntity")
         IN  /\ Range(loaded) = Matching(last.self.componentClasses)
             /\ Len(loaded) = Cardinality(Range(loaded))
             /\ Len(trace) = Len(loaded)

(* C7's case: an update processed the one matching registered entity and   *)
(* left out an entity that holds the class but was replaced in or removed  *)
(* from the registry.                                                      *)
C7_Witness ==
    /\ last.op = "update"
    /\ Len(HookEntities("processEntity")) = 1
    /\ \E e \in EntityIds \ Registered :
          \A i \in 1..Len(last.self.componentClasses) :
             hasComponent(e, last.self.componentClasses[i])

----------------------------------------------------------------------------
(* Properties of scene loading, checked under SceneSpec.                   *)

Resolves(kindId) == modules[kindId] = "ok"

DeclaredKinds(decl) == {decl.components[i].kind : i \in 1..Len(decl.components)}

C9_OneSystemPerResolvedKind ==
    last.op = "loadSceneCode" =>
        LET systems == last.ret.systems
        IN  /\ Len(systems) = Len(componentCache)
            /\ Len(componentCache) = Cardinality(MapKeys(componentCache))
            /\ \A i \in 1..Len(systems) :
                  /\ systems[i].componentClasses =
                       <<ComponentClassName(componentCache[i].key)>>
                  /\ Resolves(componentCache[i].key)
            /\ \A k \in Range(FlatKinds(last.arg.entities)) :
                  Resolves(k) =>
                     Cardinality({i \in 1..Len(systems) :
                        systems[i].componentClasses
                          = <<ComponentClassName(k)>>}) = 1

(* C9's case: two entities declare one and the same kind and the bundle    *)
(* holds a single system.                                                  *)
C9_Witness ==
    /\ last.op = "loadSceneCode"
    /\ Len(last.arg.entities) = 2
    /\ \A i \in 1..2 : DeclaredKinds(last.arg.entities[i]) = {"Test"}
    /\ Len(last.ret.systems) = 1

(* C10: when a referenced kind cannot be resolved (the import is rejected, *)
(* or the module lacks the component or the system export), loadSceneCode  *)
(* does not fail: every declared entity is created and registered,         *)
(* entities that declare the kind lack its component and keep the          *)
(* components of their resolved kinds, and the bundle has no System for    *)
(* the kind.                                                               *)
C10_UnresolvedKindSkipped ==
    [][ last'.op = "loadSceneCode" =>
          LET decls == last'.arg.entities
              systems == last'.ret.systems
          IN  /\ ~last'.threw
              /\ Len(entityHeap') = Len(entityHeap) + Len(decls)
              /\ \A i \in 1..Len(decls) :
                   LET e == Len(entityHeap) + i
                       held == entityHeap'[e]._components
                   IN  /\ MapGet(entities', decls[i].name) = e
                       /\ MapGet(last'.ret.entities, decls[i].name) = e
                       /\ \A k \in DeclaredKinds(decls[i]) :
                            MapHas(held, ComponentClassName(k)) <=> Resolves(k)
              /\ \A k \in KindIds :
                   ~Resolves(k) =>
                      /\ ~MapHas(componentCache', k)
                      /\ \A n \in 1..Len(systems) :
                            \A m \in 1..Len(systems[n].componentClasses) :
                               systems[n].componentClasses[m]
                                 # ComponentClassName(k)
      ]_vars

(* C10's case: an entity declares a kind whose module lacks the system     *)
(* export beside a kind that resolves, and holds the second one only.      *)
C10_Witness ==
    /\ last.op = "loadSceneCode"
    /\ modules["Test"] = "noSystem"
    /\ modules["AnotherTest"] = "ok"
    /\ \E i \in 1..Len(last.arg.entities) :
          /\ DeclaredKinds(last.arg.entities[i]) = KindIds
          /\ LET e == MapGet(entities, last.arg.entities[i].name)
             IN  /\ hasComponent(e, "AnotherTestComponent")
                 /\ ~hasComponent(e, "TestComponent")
    /\ Len(last.ret.systems) = 1

----------------------------------------------------------------------------
(* Properties of World.loadSceneData, loadSystems and updateSystems,       *)
(* checked under WorldSpec.                                                *)

(* C11: loadSceneData rejects a malformed payload before any state change: *)
(* a falsy body fails with "Data is not in JSON Format", a body without an *)
(* entities field with "No entities property in sceneData"; in both cases  *)
(* no entity is created or registered and originalSceneData and sceneCode  *)
(* keep their prior values.                                                *)
C11_LoadSceneDataRejects ==
    [][ last'.op = "loadSceneData" =>
          LET body == last'.arg
              falsy == body \in {JsonNull, JsonFalse}
              noEntities == /\ body.json = "object"
                            /\ "entities" \notin DOMAIN body.value
          IN  /\ falsy =>
                   /\ last'.threw
                   /\ last'.ret = "Data is not in JSON Format"
              /\ noEntities =>
                   /\ last'.threw
                   /\ last'.ret = "No entities property in sceneData"
              /\ (falsy \/ noEntities) =>
                   /\ entityHeap' = entityHeap
                   /\ componentHeap' = componentHeap
                   /\ entities' = entities
                   /\ originalSceneData' = originalSceneData
                   /\ sceneCode' = sceneCode
                   /\ componentCache' = componentCache
                   /\ worldEntity' = worldEntity
      ]_vars

(* C11's case: a body without an entities field was rejected by a World    *)
(* that holds the payload and the bundle of an earlier load.               *)
C11_Witness ==
    /\ last.op = "loadSceneData"
    /\ last.threw
    /\ last.ret = "No entities property in sceneData"
    /\ originalSceneData # <<>>
    /\ sceneCode # <<>>
    /\ Len(entities) >= 1

----------------------------------------------------------------------------
(* Properties of the World's registry, checked under Spec and              *)
(* RegistrySpec.                                                           *)

(* C12: createEntity(name) with a name that is already registered does not *)
(* fail and replaces the stored entity: the registry keeps its size and    *)
(* its other entries, search(name) returns the new entity, and the new     *)
(* entity has no components; the replaced entity object is left as it was. *)
C12_SameNameReplaces ==
    [][ (last'.op = "createEntity" /\ MapHas(entities, last'.arg)) =>
          LET name == last'.arg
              new == last'.ret
          IN  /\ ~last'.threw
              /\ new \notin EntityIds
              /\ new \in 1..Len(entityHeap')
              /\ Len(entities') = Len(entities)
              /\ \A i \in 1..Len(entities) :
                    /\ entities'[i].key = entities[i].key
                    /\ entities[i].key # name => entities'[i] = entities[i]
              /\ \A n \in Names : n = name => search(FALSE, n)' = new
              /\ entityHeap'[new] = [name |-> name, _components |-> <<>>]
              /\ \A e \in EntityIds : entityHeap'[e] = entityHeap[e]
              /\ componentHeap' = componentHeap
      ]_vars

(* C12's case: the entity registered under the name held a component when  *)
(* a second entity of that name was created.                               *)
C12_Witness ==
    /\ last.op = "createEntity"
    /\ \E old \in EntityIds \ {last.ret} :
          /\ entityHeap[old].name = last.arg
          /\ Len(ComponentsOf(old)) >= 1
    /\ Len(entities) = 1
    /\ ComponentsOf(last.ret) = <<>>

(* C13: World.removeEntity(e) does not raise and deletes the registry      *)
(* entry keyed by e's name, whichever entity is stored under it: the       *)
(* registry is unchanged exactly when no entity is registered under e's    *)
(* name, and every entry under another name is kept.                       *)
C13_RemoveEntityDeletesByName ==
    [][ last'.op = "removeEntity" =>
          LET e == last'.arg
              name == entityHeap[e].name
          IN  /\ ~last'.threw
              /\ entities' = SelectSeq(entities, LAMBDA en : en.key # name)
              /\ (entities' = entities) <=> ~MapHas(entities, name)
              /\ entityHeap' = entityHeap
              /\ componentHeap' = componentHeap
      ]_vars

(* C13's case: removeEntity was called with an entity that was not the one *)
(* stored under its name, and the entity stored under that name is gone.   *)
C13_Witness ==
    /\ last.op = "removeEntity"
    /\ last.arg = 1
    /\ \E stored \in EntityIds \ {last.arg} :
          entityHeap[stored].name = entityHeap[last.arg].name
    /\ ~MapHas(entities, entityHeap[last.arg].name)

(* C13 as stated: removeEntity(e) with an entity e that is not the entity  *)
(* stored in the registry does not raise and leaves the registry           *)
(* unchanged.                                                              *)
C13_UnregisteredLeavesRegistry ==
    [][ (last'.op = "removeEntity" /\ last'.arg \notin Registered) =>
          /\ ~last'.threw
          /\ entities' = entities
      ]_vars

(* C14: search(name) returns the entity registered under the name, or      *)
(* undefined when there is none; search([n1..nk]) returns the entities     *)
(* registered under the names that resolve, in the order of the requested  *)
(* names (an empty list when none resolves); the registry is not modified. *)
C14_SearchByName ==
    [][ last'.op = "search" =>
          LET isArray == last'.arg[1]
              name == last'.arg[2]
              ret == last'.ret
          IN  /\ ~last'.threw
              /\ entities' = entities
              /\ entityHeap' = entityHeap
              /\ IF isArray
                 THEN LET resolved ==
                            SelectSeq(name,
                                      LAMBDA n : n \in MapKeys(entities))
                      IN  /\ Len(ret) = Len(resolved)
                          /\ \A i \in 1..Len(ret) :
                                /\ ret[i] \in Registered
                                /\ entityHeap[ret[i]].name = resolved[i]
                 ELSE IF name \in MapKeys(entities)
                      THEN /\ ret \in Registered
                           /\ entityHeap[ret].name = name
                      ELSE ret = Null
      ]_vars

(* C14's case: two registered entities were requested in the reverse of    *)
(* their registration order, around a name that does not resolve.          *)
C14_Witness ==
    /\ last.op = "search"
    /\ last.arg = <<TRUE, <<"Enemy", "NonExistent", "Player">>>>
    /\ Len(last.ret) = 2
    /\ entities[1].key = "Player"
    /\ entityHeap[last.ret[1]].name = "Enemy"

----------------------------------------------------------------------------
(* Properties of World.updateSystems and World.loadSystems, checked under  *)
(* WorldSpec.                                                              *)

(* The calls of a pass that the World made on systems, hook calls left out *)
WorldCalls(methods) ==
    SelectSeq(trace, LAMBDA call : call.hook \in methods)

(* C15: updateSystems(deltaTime) invokes no system's update and does not   *)
(* raise when no scene bundle is loaded or the scene is not ready;         *)
(* otherwise it invokes update(deltaTime) exactly once on every system of  *)
(* the bundle, in list order, with that same deltaTime, on every call.     *)
C15_UpdateSystemsGuard ==
    last.op = "updateSystems" =>
        LET ready == last.arg[1]
            deltaTime == last.arg[2]
            calls == WorldCalls({"update"})
        IN  /\ ~last.threw
            /\ IF sceneCode = <<>> \/ ~ready
               THEN trace = <<>>
               ELSE LET systems == sceneCode[1].systems
                    IN  /\ Len(calls) = Len(systems)
                        /\ \A i \in 1..Len(systems) :
                              calls[i] =
                                [hook |-> "update", system |-> systems[i],
                                 entity |-> Null, arg |-> deltaTime]

(* C15's case: a bundle of two systems was updated while the World was     *)
(* paused, one of the systems being pauseable.                             *)
C15_Witness ==
    /\ last.op = "updateSystems"
    /\ last.arg[1]
    /\ sceneCode # <<>>
    /\ Len(sceneCode[1].systems) = 2
    /\ \E i \in 1..2 : sceneCode[1].systems[i].isPauseable
    /\ isPaused
    /\ Len(WorldCalls({"update"})) = 2
    /\ Len(trace) = 3

(* C16: loadSystems visits the bundle's systems in list order and invokes  *)
(* load() and then loadEntities() on each before it touches the next one:  *)
(* every system receives each of the two calls exactly once, and every     *)
(* loadEntity call of a system comes between that system's loadEntities()  *)
(* and the next system's load().                                           *)
C16_LoadThenLoadEntities ==
    (last.op = "loadSystems" /\ sceneCode # <<>>) =>
        LET systems == sceneCode[1].systems
            calls == WorldCalls({"load", "loadEntities"})
        IN  /\ ~last.threw
            /\ Len(calls) = 2 * Len(systems)
            /\ \A i \in 1..Len(systems) :
                  /\ calls[2 * i - 1] =
                       [hook |-> "load", system |-> systems[i],
                        entity |-> Null, arg |-> Null]
                  /\ calls[2 * i] =
                       [hook |-> "loadEntities", system |-> systems[i],
                        entity |-> Null, arg |-> Null]
            /\ \A j \in 1..Len(trace) :
                  trace[j].hook = "loadEntity" =>
                     \E k \in 1..(j - 1) :
                        /\ trace[k].hook = "loadEntities"
                        /\ trace[k].system = trace[j].system
                        /\ \A m \in (k + 1)..j : trace[m].hook = "loadEntity"
            /\ trace # <<>> => trace[1].hook = "load"

(* C16's case: a bundle of two systems was loaded and each system loaded   *)
(* an entity.                                                              *)
C16_Witness ==
    /\ last.op = "loadSystems"
    /\ ~last.threw
    /\ Len(sceneCode[1].systems) = 2
    /\ Len(trace) = 6
    /\ trace[3].hook = "loadEntity"
    /\ trace[6].hook = "loadEntity"
    /\ trace[3].system # trace[6].system

----------------------------------------------------------------------------
(* Properties of component construction and serialization, checked under   *)
(* ComponentSpec.                                                          *)

(* C17: constructing a Component from any input record yields enabled      *)
(* equal to the record's enabled value (true when the record has none) and *)
(* leaves loading = false, loaded = false and the owning entity = null,    *)
(* whatever other fields the record carries.                               *)
C17_LifecycleDefaults ==
    last.op = "new Component" =>
        LET data == last.arg[2]
            fields == componentHeap[last.ret].fields
        IN  /\ fields.enabled =
                 (IF "enabled" \in DOMAIN data THEN data.enabled ELSE TRUE)
            /\ fields.loading = FALSE
            /\ fields.loaded = FALSE
            /\ fields.entity = Null

(* C18: component.toJSON() is a one-entry mapping from the component's     *)
(* class name to a snapshot of every own field of the component, the       *)
(* entity back-reference included: null for a component that has no owner, *)
(* what the owner's toJSON() returns otherwise; component.serialize()      *)
(* returns the own fields themselves, the entity reference among them,     *)
(* under no kind identifier.                                               *)
C18_SerializationKeepsOwner ==
    /\ last.op = "Component.toJSON" =>
         LET fields == componentHeap[last.self].fields
             parsed == JSONParse(last.ret)
         IN  /\ Len(parsed) = 1
             /\ parsed[1].key = componentHeap[last.self].kind
             /\ DOMAIN parsed[1].value = DOMAIN fields
             /\ \A k \in DOMAIN fields \ {"entity"} :
                   parsed[1].value[k] = fields[k]
             /\ IF fields.entity = Null
                THEN parsed[1].value.entity = Null
                ELSE parsed[1].value.entity = toJSON(fields.entity)
    /\ last.op = "serialize" =>
         LET fields == componentHeap[last.self].fields
         IN  /\ DOMAIN last.ret = DOMAIN fields
             /\ "entity" \in DOMAIN last.ret
             /\ \A k \in DOMAIN fields : last.ret[k] = fields[k]

(* C18's case: a component stored in an entity was serialized, and the     *)
(* snapshot carries the entity's own serialization, which lists the        *)
(* component.                                                              *)
C18_Witness ==
    /\ last.op = "Component.toJSON"
    /\ \E e \in EntityIds :
          /\ componentHeap[last.self].fields.entity = e
          /\ MapGet(ComponentsOf(e), componentHeap[last.self].kind) = last.self
          /\ JSONParse(last.ret)[1].value.entity = toJSON(e)
          /\ Len(JSONParse(toJSON(e)).components) = 1

(* C18 as stated: serializing a component yields a mapping from its kind   *)
(* identifier to a snapshot of its own fields without the owning-entity    *)
(* back-reference.                                                         *)
C18_SerializationExcludesOwner ==
    /\ last.op = "Component.toJSON" =>
         LET parsed == JSONParse(last.ret)
         IN  /\ Len(parsed) = 1
             /\ parsed[1].key = componentHeap[last.self].kind
             /\ parsed[1].value =
                  WithoutEntity(componentHeap[last.self].fields)
    /\ last.op = "serialize" =>
         /\ DOMAIN last.ret = {componentHeap[last.self].kind}
         /\ "entity" \notin DOMAIN last.ret

----------------------------------------------------------------------------
(* Properties of Entity.toJSON and of removeComponent called with a class, *)
(* checked under SerializeSpec.                                            *)

C20_RemoveByClass ==
    last.op = "removeComponent(class)" => ~hasComponent(last.self, last.arg)

----------------------------------------------------------------------------
(* Properties of the generator script, checked under GeneratorSpec.        *)

(* The fs calls among calls that name a method and a path.                 *)
FsCalls(calls, method, path) ==
    SelectSeq(calls, LAMBDA call : call.hook = method /\ call.arg = path)

(* C21: main() never overwrites an existing file.  For each template       *)
(* independently, the output file is written, with the substituted         *)
(* template text, exactly when its output path did not exist when checked; *)
(* when it did, the template is not read, nothing is written and the file  *)
(* keeps its text, whatever happens to the other template; no other path   *)
(* changes.                                                                *)
C21_NeverOverwrites ==
    [][ (last'.op = "main" /\ last'.arg # CancelSymbol) =>
          LET name == last'.arg
          IN  /\ \A i \in 1..Len(templates) :
                   LET outPath == <<outPaths[i], <<name, ".ts">>>>
                       srcPath == <<templatesDir, templates[i]>>
                   IN  /\ Len(FsCalls(trace', "existsSync", outPath)) = 1
                       /\ IF files[outPath] = Absent
                          THEN /\ Len(FsCalls(trace', "readFileSync",
                                               srcPath)) = 1
                               /\ Len(FsCalls(trace', "writeFileSync",
                                               outPath)) = 1
                               /\ files'[outPath] =
                                    Substitute(TemplateText(templates[i]),
                                               name, toLowerCase(name))
                               /\ files'[outPath] # Absent
                          ELSE /\ FsCalls(trace', "readFileSync", srcPath)
                                    = <<>>
                               /\ FsCalls(trace', "writeFileSync", outPath)
                                    = <<>>
                               /\ files'[outPath] = files[outPath]
              /\ \A path \in OutputPaths :
                   path[2] # <<name, ".ts">> => files'[path] = files[path]
              /\ \A path \in OutputPaths :
                   files[path] # Absent => files'[path] = files[path]
      ]_vars

(* C21's case: the first output existed, written by hand, and was skipped, *)
(* and the second did not exist and was generated.                         *)
C21_Witness ==
    /\ last.op = "main"
    /\ last.arg = "Component"
    /\ files[<<outPaths[1], <<"Component", ".ts">>>>] = HandWritten
    /\ files[<<outPaths[2], <<"Component", ".ts">>>>] =
         <<"export class ", "Component", "Component {} // ", "component">>
    /\ Len(trace) = 4
    /\ trace[1].hook = "existsSync"
    /\ trace[2].hook = "existsSync"

----------------------------------------------------------------------------
(* Properties of the order of a pass, checked under SystemSpec.            *)

(* The position of a registered entity in the registry's iteration order.  *)
RegistryIndex(e) == CHOOSE i \in 1..Len(entities) : entities[i].value = e

(* C22: a System.update(deltaTime) call that the pause rule does not skip  *)
(* invokes processEntity exactly once for each registered entity that      *)
(* holds every required class, in the insertion order of the entity        *)
(* registry, and passes the call's deltaTime to each invocation.           *)
C22_UpdateOrderAndDeltaTime ==
    (last.op = "update" /\ last.self.hasProcessEntity
       /\ ~(last.self.isPauseable /\ isPaused)) =>
        LET processed == HookEntities("processEntity")
        IN  /\ Len(trace) = Cardinality(Matching(last.self.componentClasses))
            /\ \A e \in Matching(last.self.componentClasses) :
                  Cardinality({i \in 1..Len(trace) : trace[i].entity = e}) = 1
            /\ \A i \in 1..Len(trace) :
                  /\ trace[i].hook = "processEntity"
                  /\ trace[i].system = last.self
                  /\ trace[i].arg = last.arg
                  /\ trace[i].entity \in Registered
            /\ \A i, j \in 1..Len(processed) :
                  i < j =>
                    RegistryIndex(processed[i]) < RegistryIndex(processed[j])

(* C22's case: two registered entities hold the required class, the one    *)
(* named Enemy registered first, and both were processed in that order     *)
(* with the deltaTime of the call.                                         *)
C22_Witness ==
    /\ last.op = "update"
    /\ last.arg = 33
    /\ Len(trace) = 2
    /\ entityHeap[trace[1].entity].name = "Enemy"
    /\ entityHeap[trace[2].entity].name = "Player"
    /\ entities[1].key = "Enemy"
    /\ trace[1].arg = 33
    /\ trace[2].arg = 33

----------------------------------------------------------------------------
(* Properties of the startup of the page, checked under StartupSpec.       *)

(* The positions of the log that hold a call of one of the hooks.          *)
LogAt(hooks) == {i \in 1..Len(log) : log[i].hook \in hooks}

(* C23: in the startup sequence (loadSceneData, then start) no system's    *)
(* update or processEntity runs before the scene-data fetch has resolved,  *)
(* every kind the description references has finished resolving, every     *)
(* declared entity and every component of a resolved kind has been         *)
(* constructed, and load and loadEntities of every system of the bundle    *)
(* have completed; the resolution of all kinds completes before the first  *)
(* entity or component is constructed.                                     *)
C23_NoUpdateBeforeStartupCompletes ==
    LET referenced ==
          IF originalSceneData = <<>>
          THEN {}
          ELSE Range(FlatKinds(originalSceneData[1].entities))
        Before(i, hooks) == {j \in LogAt(hooks) : j < i}
        ImportedBefore(i) == {log[j].arg : j \in Before(i, {"import"})}
    IN  /\ \A i \in LogAt({"update", "processEntity"}) :
              /\ Before(i, {"fetch"}) # {}
              /\ originalSceneData # <<>>
              /\ sceneCode # <<>>
              /\ referenced \subseteq ImportedBefore(i)
              /\ \A n \in 1..Len(originalSceneData[1].entities) :
                    LET decl == originalSceneData[1].entities[n]
                    IN  \E j \in Before(i, {"createEntity"}) :
                           log[j].arg = decl.name
              /\ Cardinality(Before(i, {"new Component"})) =
                   Len(SelectSeq(FlatKinds(originalSceneData[1].entities),
                                 LAMBDA k : Resolves(k)))
              /\ \A n \in 1..Len(sceneCode[1].systems) :
                    LET system == sceneCode[1].systems[n]
                    IN  \E j, k \in Before(i, {"load", "loadEntities"}) :
                           /\ j < k
                           /\ log[j] = SystemCall("load", system, Null)
                           /\ log[k] = SystemCall("loadEntities", system,
                                                  Null)
              /\ LogAt({"load", "loadEntities", "loadEntity"})
                   \subseteq 1..(i - 1)
        /\ \A i \in LogAt({"createEntity", "new Component", "new System"}) :
              /\ referenced \subseteq ImportedBefore(i)
              /\ LogAt({"import"}) \subseteq 1..(i - 1)

(* C23's case: the browser drew a frame while an import was pending, and   *)
(* a frame after the start of a scene of two kinds updated both systems    *)
(* and processed an entity.                                                *)
C23_Witness ==
    /\ page.pc = "running"
    /\ Cardinality(LogAt({"import"})) = 2
    /\ \E f \in LogAt({"frame"}), i \in LogAt({"import"}) : f < i
    /\ Cardinality(LogAt({"update"})) = 2
    /\ LogAt({"processEntity"}) # {}
    /\ last.op = "frame"

(* C26: every entity that a system's update passes to processEntity has    *)
(* previously been passed to that same system's loadEntity, including an   *)
(* entity that was created, or was given the required component, after     *)
(* loadSystems ran.                                                        *)
C26_ProcessedWereLoaded ==
    \A i \in LogAt({"processEntity"}) :
       \E j \in LogAt({"loadEntity"}) :
          /\ j < i
          /\ log[j].system = log[i].system
          /\ log[j].entity = log[i].entity

----------------------------------------------------------------------------
(* Properties of passes whose hooks read components and change the World,  *)
(* checked under HooksSpec.                                                *)

Passes == {"update", "loadEntities", "loadSystems", "updateSystems"}

(* C24: a NotFound error that getComponent raises inside a loadEntity or   *)
(* processEntity hook is what the caller of System.loadEntities,           *)
(* System.update, World.loadSystems or World.updateSystems receives: the   *)
(* call ends with that error, no hook and no system is called after the    *)
(* one that raised it, and such a call ends with an error only when a hook *)
(* raised one.                                                             *)
C24_NotFoundPropagates ==
    last.op \in Passes =>
       /\ \A i \in 1..Len(trace) :
             trace[i].hook = "throw" =>
                /\ i = Len(trace)
                /\ trace[i - 1].hook \in {"loadEntity", "processEntity"}
                /\ trace[i - 1].entity = trace[i].entity
                /\ last.threw
                /\ last.ret = trace[i].arg
                /\ \E class \in ComponentClasses :
                      /\ ~hasComponent(trace[i].entity, class)
                      /\ last.ret = <<class, " Not Found for ",
                                      entityHeap[trace[i].entity].name>>
       /\ last.threw =>
             /\ trace # <<>>
             /\ trace[Len(trace)].hook = "throw"

(* World.updateSystems or World.loadSystems ended with the NotFound error  *)
(* of a hook of the first system of a bundle of two.                       *)
C24_Witness ==
    /\ last.op \in {"updateSystems", "loadSystems"}
    /\ last.threw
    /\ Len(sceneCode[1].systems) = 2
    /\ trace[Len(trace)].hook = "throw"
    /\ trace[Len(trace)].system = sceneCode[1].systems[1]
    /\ Len(last.ret) = 3

(* The entities handed to processEntity by system in calls, in call order. *)
Processed(calls, system) ==
    LET own == SelectSeq(calls, LAMBDA c : /\ c.hook = "processEntity"
                                           /\ c.system = system)
    IN  [i \in 1..Len(own) |-> own[i].entity]

IsPrefix(s, t) == Len(s) <= Len(t) /\ s = SubSeq(t, 1, Len(s))

(* C27: System.update processes the entities that entitiesWith returned    *)
(* when the call began, in that order, whatever its processEntity hooks    *)
(* create, remove, add or take away during the pass (all of them unless a  *)
(* hook throws); within World.updateSystems the second system's pass       *)
(* queries the registry as the first system's pass left it.                *)
C27_UpdateIteratesSnapshot ==
    [][/\ (last'.op = "update" /\ last'.self.hasProcessEntity) =>
            LET before == entitiesWithIn(Now, last'.self.componentClasses)
                done == Processed(trace', last'.self)
            IN  /\ IsPrefix(done, before)
                /\ ~last'.threw => done = before
       /\ (last'.op = "updateSystems" /\ ~last'.threw) =>
            LET systems == sceneCode[1].systems
            IN  /\ Processed(trace', systems[1]) =
                      entitiesWithIn(Now, systems[1].componentClasses)
                /\ systems[2].effect = "none" =>
                      Processed(trace', systems[2]) =
                         entitiesWithIn(Now', systems[2].componentClasses)
      ]_vars

(* An update whose hook removed the other entity from the registry has     *)
(* processed both entities; a frame whose first system gave the second     *)
(* entity the component has processed it in the second system only.        *)
C27_Witness ==
    \/ /\ last.op = "update"
       /\ last.self.effect = "removeEntity"
       /\ Len(Processed(trace, last.self)) = 2
       /\ entities = <<>>
    \/ /\ last.op = "updateSystems"
       /\ sceneCode[1].systems[1].effect = "addComponent"
       /\ Len(Processed(trace, sceneCode[1].systems[1])) = 1
       /\ Len(Processed(trace, sceneCode[1].systems[2])) = 2

----------------------------------------------------------------------------
(* Properties of repeated scene loads, checked under SceneSpec.            *)

(* C25: each kind is imported at most once over the life of a World: the   *)
(* import calls of one loadSceneCode call name distinct kinds, none of     *)
(* them a kind whose pair the cache already holds, and no cache entry is   *)
(* ever removed.                                                           *)
C25_ResolvedAtMostOnce ==
    [][/\ \A k \in KindIds :
            MapHas(componentCache, k) => MapHas(componentCache', k)
       /\ last'.op = "loadSceneCode" =>
            \A i \in 1..Len(trace') :
               trace'[i].hook = "import" =>
                  /\ ~MapHas(componentCache, trace'[i].arg)
                  /\ \A j \in 1..(i - 1) : trace'[j].arg # trace'[i].arg
      ]_vars

----------------------------------------------------------------------------
(* C28: every component stored in an entity's component map has that       *)
(* entity as its owning-entity back-reference, in every state that         *)
(* addComponent and removeComponent calls on any entities can reach.       *)
C28_StoredComponentsPointBack ==
    \A e \in EntityIds :
       \A i \in 1..Len(entityHeap[e]._components) :
          componentHeap[entityHeap[e]._components[i].value].fields.entity = e

(* The names a scene description declares.                                 *)
DeclaredNames(data) == {data.entities[d].name : d \in 1..Len(data.entities)}

(* C29: loadSceneCode removes no registry entry: an entity registered      *)
(* before the call under a name the description does not declare is still  *)
(* registered under that name afterwards, it and its components are as     *)
(* they were, and entitiesWith returns it for every system of the new      *)
(* bundle whose required class it holds.                                   *)
C29_LoadKeepsRegistry ==
    [][last'.op = "loadSceneCode" =>
         \A i \in 1..Len(entities) :
            LET name == entities[i].key
                e == entities[i].value
                held == MapValues(entityHeap[e]._components)
            IN  name \notin DeclaredNames(last'.arg) =>
                   /\ MapGet(entities', name) = e
                   /\ entityHeap'[e] = entityHeap[e]
                   /\ \A k \in 1..Len(held) :
                         componentHeap'[held[k]] = componentHeap[held[k]]
                   /\ \A s \in 1..Len(last'.ret.systems) :
                         LET classes == last'.ret.systems[s].componentClasses
                             found == entitiesWithIn(Now', classes)
                         IN  everyComponent(e, classes) =>
                                \E k \in 1..Len(found) : found[k] = e
      ]_vars

(* A second description was loaded that does not declare the entity of the *)
(* first, and a system of the new bundle finds that entity.                *)
C29_Witness ==
    /\ last.op = "loadSceneCode"
    /\ \E i \in 1..Len(entities) :
          /\ entities[i].key \notin DeclaredNames(last.arg)
          /\ \E s \in 1..Len(last.ret.systems) :
                LET found == entitiesWithIn(Now,
                                last.ret.systems[s].componentClasses)
                IN  \E k \in 1..Len(found) : found[k] = entities[i].value

----------------------------------------------------------------------------
(* Properties of the mock world against the World, checked under MockSpec. *)

MockedOps == {"createEntity", "removeEntity", "search", "entitiesWith",
              "loadSystems", "updateSystems"}

(* C30: after the same calls from the same start, the mock world and the   *)
(* World hold the same registry, entities, bundle and pause flag, and the  *)
(* last call of createEntity, removeEntity, search, entitiesWith,          *)
(* loadSystems or updateSystems ended the same way on both: both threw or  *)
(* both returned, with the same value and the same calls on the systems.   *)
C30_MockEquivalentToWorld ==
    /\ mock.entities = entities
    /\ mock.entityHeap = entityHeap
    /\ mock.componentHeap = componentHeap
    /\ mock.sceneCode = sceneCode
    /\ mock.isPaused = isPaused
    /\ last.op \in MockedOps =>
          /\ mock.last.op = last.op
          /\ mock.last.threw = last.threw
          /\ mock.last.ret = last.ret
          /\ mock.trace = trace

====
